---- MODULE Spec2Model ----
(***************************************************************************)
(* A model of cablemap.core.reader (and the Cable object of                *)
(* cablemap.core.models): the extractors that turn the text of a cable     *)
(* into fields.                                                            *)
(*                                                                         *)
(* Text is a sequence of one-character strings.  Offsets are Python's:     *)
(* offset i names the character s[i+1].  A compiled pattern is a tree of   *)
(* records that mirrors the regular expression of the source; Run is a     *)
(* backtracking matcher with the priorities of Python's re module          *)
(* (leftmost match, alternatives in order, greedy or lazy repetition).     *)
(***************************************************************************)
EXTENDS Integers, Sequences, FiniteSets, TLC

VARIABLES
    pc,            \* position of the driver of the extractor under study
    reference_id,  \* the identifier handed to the extractor
    content,       \* the text handed to the extractor
    content2,      \* a second text (two-document comparisons)
    year,          \* the year handed to parse_references
    out,           \* the value returned by the (first) call
    out2,          \* the value returned by the second call
    cable,         \* the Cable object parse_meta writes to
    error,         \* the error raised by the call, "" when none
    clean,         \* the clean argument of parse_subject
    fix_subject,   \* the fix_subject argument of parse_subject
    log,           \* the records handed to the module's logger, in order
    globals,       \* the module-level names the functions read or assign
    frames         \* the running calls of _route_for_name, one per caller (SpecRoutes);
                   \* the second copy of the program (SpecPure)

vars == <<pc, reference_id, content, content2, year, out, out2, cable, error,
          clean, fix_subject, log, globals, frames>>

\* what the extractors of a single call without logging leave alone
rest == <<clean, fix_subject, log, globals, frames>>

-----------------------------------------------------------------------------
(* Characters *)

UpperCase == <<"A","B","C","D","E","F","G","H","I","J","K","L","M",
               "N","O","P","Q","R","S","T","U","V","W","X","Y","Z">>
LowerCase == <<"a","b","c","d","e","f","g","h","i","j","k","l","m",
               "n","o","p","q","r","s","t","u","v","w","x","y","z">>
Digits == {"0","1","2","3","4","5","6","7","8","9"}
UpperSet == {UpperCase[k] : k \in 1..26}
LowerSet == {LowerCase[k] : k \in 1..26}
Letters == UpperSet \cup LowerSet
\* \s of the re module (the ASCII part; the texts of the model are ASCII)
Space == {" ", "\t", "\n", "\r", "\f"}

\* str.lower / str.upper on one character
LowerOf == [c \in UpperSet |-> LowerCase[CHOOSE k \in 1..26 : UpperCase[k] = c]]
UpperOf == [c \in LowerSet |-> UpperCase[CHOOSE k \in 1..26 : LowerCase[k] = c]]
Lower(c) == IF c \in UpperSet THEN LowerOf[c] ELSE c
Upper(c) == IF c \in LowerSet THEN UpperOf[c] ELSE c

\* str.upper
UpperStr(s) == [k \in 1..Len(s) |-> Upper(s[k])]

\* s[a:b] for offsets 0 <= a, b (Python slicing, clipped to the text)
Slice(s, a, b) ==
    LET e == IF b > Len(s) THEN Len(s) ELSE b
    IN  IF a >= e THEN <<>> ELSE SubSeq(s, a + 1, e)

\* the concatenation of a sequence of texts
RECURSIVE Concat(_)
Concat(ss) == IF ss = <<>> THEN <<>> ELSE Head(ss) \o Concat(Tail(ss))

\* max and min of two numbers
Max2(a, b) == IF a >= b THEN a ELSE b
Min2(a, b) == IF a <= b THEN a ELSE b

\* whether text t occurs in s at offset i
StartsAt(s, t, i) ==
    /\ i >= 0
    /\ i + Len(t) <= Len(s)
    /\ \A k \in 1..Len(t) : s[i + k] = t[k]

-----------------------------------------------------------------------------
(* Patterns: the constructors of the pattern tree *)

Lit(t)     == [k |-> "lit", s |-> t]                       \* the characters of t
In(S)      == [k |-> "set", s |-> S, neg |-> FALSE]       \* [...]
NotIn(S)   == [k |-> "set", s |-> S, neg |-> TRUE]        \* [^...]
Dot        == [k |-> "any"]                                \* .
Cat(rs)    == [k |-> "cat", r |-> rs]                      \* r1 r2 ...
Alt(rs)    == [k |-> "alt", r |-> rs]                      \* r1|r2|...
Rep(r, lo, hi, greedy) ==                                  \* r{lo,hi}, hi = -1: no limit
    [k |-> "rep", r |-> r, lo |-> lo, hi |-> hi, greedy |-> greedy]
Star(r)     == Rep(r, 0, -1, TRUE)                         \* r*
Plus(r)     == Rep(r, 1, -1, TRUE)                         \* r+
Opt(r)      == Rep(r, 0, 1, TRUE)                          \* r?
LazyPlus(r) == Rep(r, 1, -1, FALSE)                        \* r+?
Grp(n, r)   == [k |-> "grp", n |-> n, r |-> r]             \* the n-th ( ... )
Ahead(r)    == [k |-> "look", r |-> r, neg |-> FALSE]      \* (?=r)
NotAhead(r) == [k |-> "look", r |-> r, neg |-> TRUE]       \* (?!r)
Bol         == [k |-> "bol"]                               \* ^
Eol         == [k |-> "eol"]                               \* $
Eos         == [k |-> "eos"]                               \* \Z
NotBehind(c) == [k |-> "notbehind", s |-> c]               \* (?<!c), c one character

\* re.compile(pattern, flags): ng is the number of groups of the pattern
Compile(r, ng, ic, dotall, multiline) ==
    [re |-> r, ng |-> ng, ic |-> ic, dotall |-> dotall, multiline |-> multiline]

NoGroup == <<-1, -1>>       \* a group that took no part in the match

\* one character against a literal character or a class
CharEq(p, a, b) == IF p.ic THEN Lower(a) = Lower(b) ELSE a = b
CharIn(p, n, c) ==
    LET hit == IF p.ic THEN Lower(c) \in n.s \/ Upper(c) \in n.s ELSE c \in n.s
    IN  hit # n.neg

LitAt(p, t, s, i) ==
    /\ i + Len(t) <= Len(s)
    /\ \A k \in 1..Len(t) : CharEq(p, s[i + k], t[k])

\* a node that takes exactly one character, and whether it takes c
OneChar(n) == n.k \in {"set", "any"} \/ (n.k = "lit" /\ Len(n.s) = 1)
Takes(p, n, c) ==
    CASE n.k = "set" -> CharIn(p, n, c)
      [] n.k = "any" -> p.dotall \/ c # "\n"
      [] n.k = "lit" -> CharEq(p, c, n.s[1])

\* the offsets of a text
Offsets(s) == 0..Len(s)

\* the longest run of characters from offset i that a repetition of the
\* one-character node n.r can take
RunLength(p, n, s, i) ==
    LET limit == IF n.hi = -1 \/ Len(s) - i < n.hi THEN Len(s) - i ELSE n.hi
    IN  IF n.r.k = "any" /\ p.dotall THEN limit
        ELSE CHOOSE c \in 0..limit :
               /\ c = limit \/ ~Takes(p, n.r, s[i + c + 1])
               /\ \A k \in 1..c : Takes(p, n.r, s[i + k])

(***************************************************************************)
(* The patterns have no back-references, so whether the rest of a pattern  *)
(* can match depends on the offset alone, and matching is told by sets of  *)
(* offsets:                                                                *)
(*   Ends(p, n, s, I): the offsets where node n can end when it starts at  *)
(*     an offset of I;                                                     *)
(*   Within(p, n, s, I, J): the offsets of I from which n can match and    *)
(*     end at an offset of J (J stands for the rest of the pattern).       *)
(* For a concatenation r1 ... rn, Befores gives the offsets before each   *)
(* of its nodes that can be reached from I, and Froms those of them from   *)
(* which the nodes that follow can match and end in J; both are built by   *)
(* halves.  A value that is used more than once is handed on as an         *)
(* argument of the operator that uses it.                                  *)
(***************************************************************************)
RECURSIVE Ends(_, _, _, _)
RECURSIVE Befores(_, _, _, _, _, _)
RECURSIVE EndsRep(_, _, _, _, _)
RECURSIVE EndsClosure(_, _, _, _)
RECURSIVE Within(_, _, _, _, _)
RECURSIVE Froms(_, _, _, _, _, _, _)
RECURSIVE WithinRep(_, _, _, _, _, _)
RECURSIVE WithinClosure(_, _, _, _, _)

\* whether the anchor n holds at offset i
AnchorAt(p, n, s, i) ==
    CASE n.k = "bol" -> i = 0 \/ (p.multiline /\ s[i] = "\n")
      [] n.k = "eol" -> \/ i = Len(s)
                        \/ (i = Len(s) - 1 /\ s[i + 1] = "\n")
                        \/ (p.multiline /\ s[i + 1] = "\n")
      [] n.k = "eos" -> i = Len(s)
      [] n.k = "notbehind" -> i = 0 \/ ~CharEq(p, s[i], n.s)

Ends(p, n, s, I) ==
    CASE n.k = "lit" -> {i + Len(n.s) : i \in {i \in I : LitAt(p, n.s, s, i)}}
      [] n.k \in {"set", "any"} -> {i + 1 : i \in {i \in I : i < Len(s) /\ Takes(p, n, s[i + 1])}}
      [] n.k = "cat" ->
           IF n.r = <<>> THEN I
           ELSE Ends(p, n.r[Len(n.r)], s, Befores(p, n.r, 1, Len(n.r), s, I)[Len(n.r)])
      [] n.k = "alt" -> UNION {Ends(p, n.r[a], s, I) : a \in 1..Len(n.r)}
      [] n.k = "rep" -> IF OneChar(n.r)
                        THEN UNION {(i + n.lo)..(i + RunLength(p, n, s, i)) : i \in I}
                        ELSE EndsRep(p, n, 0, s, I)
      [] n.k = "grp" -> Ends(p, n.r, s, I)
      [] n.k = "look" -> {i \in I : (Ends(p, n.r, s, {i}) # {}) # n.neg}
      [] n.k \in {"bol", "eol", "eos", "notbehind"} -> {i \in I : AnchorAt(p, n, s, i)}

\* left, the offsets before the nodes up to mid, and next, the ends of node
\* mid: the offsets before the nodes up to hi
BeforesRest(p, rs, mid, hi, s, left, next) ==
    IF next = {} THEN left \o [k \in 1..(hi - mid) |-> {}]
    ELSE left \o Befores(p, rs, mid + 1, hi, s, next)

BeforesFrom(p, rs, mid, hi, s, left) ==
    BeforesRest(p, rs, mid, hi, s, left, Ends(p, rs[mid], s, left[Len(left)]))

\* for the nodes lo..hi of rs, the offsets before each of them that can be
\* reached when node lo starts at an offset of I
Befores(p, rs, lo, hi, s, I) ==
    IF lo = hi THEN <<I>>
    ELSE BeforesFrom(p, rs, (lo + hi) \div 2, hi, s,
                     Befores(p, rs, lo, (lo + hi) \div 2, s, I))

\* the ends of the rounds after the first k of the repetition n
EndsRep(p, n, k, s, I) ==
    IF I = {} THEN {}
    ELSE IF n.hi # -1 /\ k >= n.hi THEN I
    ELSE IF n.hi = -1 /\ k >= n.lo THEN EndsClosure(p, n, s, I)
    ELSE (IF k >= n.lo THEN I ELSE {}) \cup EndsRep(p, n, k + 1, s, Ends(p, n.r, s, I))

\* R with the ends Y of one more round: the ends of any number of rounds
EndsGrown(p, n, s, R, Y) == IF Y = R THEN R ELSE EndsClosure(p, n, s, Y)

EndsClosure(p, n, s, R) == EndsGrown(p, n, s, R, R \cup Ends(p, n.r, s, R))

Within(p, n, s, I, J) ==
    CASE n.k = "lit" -> {i \in I : i + Len(n.s) \in J /\ LitAt(p, n.s, s, i)}
      [] n.k \in {"set", "any"} -> {i \in I : i + 1 \in J /\ Takes(p, n, s[i + 1])}
      [] n.k = "cat" ->
           IF n.r = <<>> THEN I \cap J
           ELSE Froms(p, n.r, 1, Len(n.r), s, Befores(p, n.r, 1, Len(n.r), s, I), J)[1]
      [] n.k = "alt" -> UNION {Within(p, n.r[a], s, I, J) : a \in 1..Len(n.r)}
      [] n.k = "rep" ->
           IF OneChar(n.r)
           THEN {i \in I : LET most == i + RunLength(p, n, s, i)
                           IN  \E j \in J : i + n.lo <= j /\ j <= most}
           ELSE WithinRep(p, n, 0, s, I, J)
      [] n.k = "grp" -> Within(p, n.r, s, I, J)
      [] n.k = "look" -> {i \in I \cap J : (Ends(p, n.r, s, {i}) # {}) # n.neg}
      [] n.k \in {"bol", "eol", "eos", "notbehind"} -> {i \in I \cap J : AnchorAt(p, n, s, i)}

\* right, the offsets for the nodes after mid: those for the nodes lo..hi
FromsLeft(p, rs, lo, mid, s, bef, right) ==
    IF right[1] = {} THEN [k \in 1..(mid - lo + 1) |-> {}] \o right
    ELSE Froms(p, rs, lo, mid, s, bef, right[1]) \o right

\* for the nodes lo..hi of rs, the offsets of bef (the offsets before each
\* node) from which the nodes up to hi can match and end at an offset of J
Froms(p, rs, lo, hi, s, bef, J) ==
    IF lo = hi THEN <<Within(p, rs[lo], s, bef[lo], J)>>
    ELSE FromsLeft(p, rs, lo, (lo + hi) \div 2, s, bef,
                   Froms(p, rs, (lo + hi) \div 2 + 1, hi, s, bef, J))

\* round k + 1 from an offset of I, when the rounds after it can end in J
\* from the offsets next
WithinRound(p, n, k, s, I, J, next) ==
    (IF k >= n.lo THEN I \cap J ELSE {})
    \cup (IF next = {} THEN {} ELSE Within(p, n.r, s, I, next))

\* the offsets of I from which the rounds after the first k of the
\* repetition n can end at an offset of J
WithinRep(p, n, k, s, I, J) ==
    IF I = {} THEN {}
    ELSE IF n.hi # -1 /\ k >= n.hi THEN I \cap J
    ELSE IF n.hi = -1 /\ k >= n.lo
         THEN I \cap WithinClosure(p, n, s, EndsClosure(p, n, s, I), J)
    ELSE WithinRound(p, n, k, s, I, J, WithinRep(p, n, k + 1, s, Ends(p, n.r, s, I), J))

\* B with the offsets Y from which one more round ends in B
WithinGrown(p, n, s, R, B, Y) == IF Y = B THEN B ELSE WithinClosure(p, n, s, R, Y)

\* the offsets of R from which any number of rounds can end in J
WithinClosure(p, n, s, R, J) ==
    WithinGrown(p, n, s, R, R \cap J, (R \cap J) \cup Within(p, n.r, s, R, R \cap J))

(***************************************************************************)
(* Run(p, n, s, i, J, caps), for an offset i from which n can match and    *)
(* end in J: the way the backtracking matcher matches n from i, as         *)
(* <<end, caps>>.  At each choice it takes the first way, in the matcher's *)
(* order, that ends at an offset of J, that is, from which the rest can    *)
(* still match.                                                            *)
(***************************************************************************)
RECURSIVE Run(_, _, _, _, _, _)
RECURSIVE RunCat(_, _, _, _, _, _, _, _)
RECURSIVE RunRep(_, _, _, _, _, _, _)
RECURSIVE FirstAlt(_, _, _, _, _, _)

\* the least and the greatest number of a set
Least(S) == CHOOSE i \in S : \A j \in S : i <= j
Most(S) == CHOOSE i \in S : \A j \in S : j <= i

\* the first of the alternatives a, a + 1, ... of rs that can match from i
\* and end in J
FirstAlt(p, rs, a, s, i, J) ==
    IF Within(p, rs[a], s, {i}, J) # {} THEN a ELSE FirstAlt(p, rs, a + 1, s, i, J)

\* the end a repetition of a one-character node settles on, of the ends
\* that lie in J: greedy, the last one; lazy, the first one
FirstEnd(n, ends) == IF n.greedy THEN Most(ends) ELSE Least(ends)

\* the result of a group: the result r of its node, with the group set
Captured(g, i, r) == <<r[1], [r[2] EXCEPT ![g] = <<i, r[1]>>]>>

Run(p, n, s, i, J, caps) ==
    CASE n.k = "lit" -> <<i + Len(n.s), caps>>
      [] n.k \in {"set", "any"} -> <<i + 1, caps>>
      [] n.k = "cat" ->
           IF n.r = <<>> THEN <<i, caps>>
           ELSE RunCat(p, n.r, 1, Len(n.r), s, i,
                       Froms(p, n.r, 1, Len(n.r), s,
                             Befores(p, n.r, 1, Len(n.r), s, {i}), J) \o <<J>>,
                       caps)
      [] n.k = "alt" -> Run(p, n.r[FirstAlt(p, n.r, 1, s, i, J)], s, i, J, caps)
      [] n.k = "rep" ->
           IF OneChar(n.r)
           THEN <<FirstEnd(n, ((i + n.lo)..(i + RunLength(p, n, s, i))) \cap J), caps>>
           ELSE RunRep(p, n, 0, s, i, J, caps)
      [] n.k = "grp" -> Captured(n.n, i, Run(p, n.r, s, i, J, caps))
      [] n.k = "look" ->
           <<i, IF n.neg THEN caps ELSE Run(p, n.r, s, i, Offsets(s), caps)[2]>>
      [] n.k \in {"bol", "eol", "eos", "notbehind"} -> <<i, caps>>

\* left, the result of the nodes up to mid: the result of the nodes up to hi
RunCatRight(p, rs, mid, hi, s, from, left) ==
    IF left[1] \in from[mid + 1]
    THEN RunCat(p, rs, mid + 1, hi, s, left[1], from, left[2])
    ELSE left

\* the nodes lo..hi of rs from offset i; node k ends at an offset of
\* from[k + 1], where the nodes after it can match
RunCat(p, rs, lo, hi, s, i, from, caps) ==
    IF lo = hi THEN Run(p, rs[lo], s, i, from[lo + 1], caps)
    ELSE RunCatRight(p, rs, (lo + hi) \div 2, hi, s, from,
                     RunCat(p, rs, lo, (lo + hi) \div 2, s, i, from, caps))

\* r, the result of round k + 1 from i: the result of the rounds after k
RunNext(p, n, k, s, i, J, r) ==
    IF r[1] = i THEN r ELSE RunRep(p, n, k + 1, s, r[1], J, r[2])

\* the rounds after the first k from i, given the offsets after from which
\* the rounds after round k + 1 can end in J
RunRound(p, n, k, s, i, J, caps, after) ==
    IF (n.greedy /\ after # {}) \/ ~(k >= n.lo /\ i \in J)
    THEN RunNext(p, n, k, s, i, J, Run(p, n.r, s, i, after, caps))
    ELSE <<i, caps>>

\* the rounds after the first k of the repetition n, from offset i
RunRep(p, n, k, s, i, J, caps) ==
    RunRound(p, n, k, s, i, J, caps,
             IF n.hi = -1 \/ k < n.hi
             THEN WithinRep(p, n, k + 1, s, Ends(p, n.r, s, {i}), J)
             ELSE {})

(***************************************************************************)
(* A match object: [start, end, groups] with groups[n] = <<start, end>>    *)
(* of group n (NoGroup when the group took no part).  NoMatch is None.     *)
(***************************************************************************)
NoMatch == [start |-> -1, end |-> -1, groups |-> <<>>]

\* the match object for a match from offset at with the result r of Run
MatchObject(at, r) == [start |-> at, end |-> r[1], groups |-> r[2]]

\* the match of p in t from the least of the offsets hits it can match from
FirstHit(p, t, hits) ==
    IF hits # {}
    THEN MatchObject(Least(hits),
                     Run(p, p.re, t, Least(hits), Offsets(t), [g \in 1..p.ng |-> NoGroup]))
    ELSE NoMatch

\* a match in t = s[:endpos] that starts at pos; none when endpos < pos
MatchIn(p, t, pos) ==
    IF pos > Len(t) THEN NoMatch
    ELSE FirstHit(p, t, Within(p, p.re, t, {pos}, Offsets(t)))

\* pattern.match(s, pos, endpos): a match that starts at pos (pos and endpos
\* are clipped to the text)
MatchAt(p, s, pos, endpos) == MatchIn(p, Slice(s, 0, endpos), Min2(pos, Len(s)))

\* the leftmost match in t = s[:endpos] that starts at or after pos
SearchIn(p, t, pos) ==
    IF pos > Len(t) THEN NoMatch
    ELSE FirstHit(p, t, Within(p, p.re, t, pos..Len(t), Offsets(t)))

\* pattern.search(s, pos, endpos): the leftmost match that starts at or after pos
Search(p, s, pos, endpos) == SearchIn(p, Slice(s, 0, endpos), Min2(pos, Len(s)))

\* m.group(n): the text of group n, the empty text when it took no part
\* (findall's value for such a group)
Group(s, m, n) == IF m.groups[n] = NoGroup THEN <<>> ELSE Slice(s, m.groups[n][1], m.groups[n][2])

RECURSIVE FindAll(_, _, _)
RECURSIVE Sub(_, _, _, _)

\* the match m and the matches after it
FoundAll(p, s, m) ==
    IF m = NoMatch THEN <<>>
    ELSE <<m>> \o FindAll(p, s, IF m.end > m.start THEN m.end ELSE m.end + 1)

\* pattern.findall(s): the matches from left to right, none overlapping
FindAll(p, s, pos) == FoundAll(p, s, Search(p, s, pos, Len(s)))

\* s from pos on, with the match m and the matches after it replaced
Replaced(p, repl, s, pos, m) ==
    IF m = NoMatch THEN Slice(s, pos, Len(s))
    ELSE IF m.end > m.start
         THEN Slice(s, pos, m.start) \o repl \o Sub(p, repl, s, m.end)
         ELSE Slice(s, pos, m.start) \o repl \o Slice(s, m.start, m.start + 1)
              \o Sub(p, repl, s, m.end + 1)

\* re.sub(pattern, repl, s) for a replacement text without group references
Sub(p, repl, s, pos) == Replaced(p, repl, s, pos, Search(p, s, pos, Len(s)))

-----------------------------------------------------------------------------
(* Dictionaries keyed by text: a sequence of records with an id field; of    *)
(* two entries with the same key the later one counts, as in a dict display. *)

HasKey(table, key) == \E k \in 1..Len(table) : table[k].id = key
Entry(table, key) == table[Most({k \in 1..Len(table) : table[k].id = key})]

\* the texts made of at most n pieces of pool
TextsOf(pool, n) ==
    UNION {{Concat([k \in 1..m |-> pool[f[k]]]) : f \in [1..m -> 1..Len(pool)]} : m \in 0..n}

-----------------------------------------------------------------------------
(* fix_content *)

\* pattern -> replacement, by cable.  U+2019 stands for the right single
\* quotation mark of the source.
_CABLE_FIXES == <<
    \* 08MANAMA492: "TORUEHC/SECSTATE" -> "TO RUEHC/SECSTATE"
    [id |-> <<"0","8","M","A","N","A","M","A","4","9","2">>,
     pattern |-> Lit(<<"T","O","R","U","E","H","C","/","S","E","C","S","T","A","T","E">>),
     repl |-> <<"T","O"," ","R","U","E","H","C","/","S","E","C","S","T","A","T","E">>],
    \* 08ECTION01OF02MANAMA492: "TORUEHC/SECSTATE" -> "TO RUEHC/SECSTATE"
    [id |-> <<"0","8","E","C","T","I","O","N","0","1","O","F","0","2","M","A","N","A","M","A","4","9","2">>,
     pattern |-> Lit(<<"T","O","R","U","E","H","C","/","S","E","C","S","T","A","T","E">>),
     repl |-> <<"T","O"," ","R","U","E","H","C","/","S","E","C","S","T","A","T","E">>],
    \* 08TRIPOLI402: "JAMAHIRIYA-STYLE\\s+Q: A\\) TRIPOLI" -> "JAMAHIRIYA-STYLE \nREF: A) TRIPOLI"
    [id |-> <<"0","8","T","R","I","P","O","L","I","4","0","2">>,
     pattern |-> Cat(<<Lit(<<"J","A","M","A","H","I","R","I","Y","A","-","S","T","Y","L","E">>), Plus(In(Space)), Lit(<<"Q",":"," ","A",")"," ","T","R","I","P","O","L","I">>)>>),
     repl |-> <<"J","A","M","A","H","I","R","I","Y","A","-","S","T","Y","L","E"," ","\n","R","E","F",":"," ","A",")"," ","T","R","I","P","O","L","I">>],
    \* 07HAVANA252: "XXXNEED A MILLION" -> "XXX NEED A MILLION"
    [id |-> <<"0","7","H","A","V","A","N","A","2","5","2">>,
     pattern |-> Lit(<<"X","X","X","N","E","E","D"," ","A"," ","M","I","L","L","I","O","N">>),
     repl |-> <<"X","X","X"," ","N","E","E","D"," ","A"," ","M","I","L","L","I","O","N">>],
    \* 09BEIJING1176: "XXXDISCUSSES" -> "XXX DISCUSSES"
    [id |-> <<"0","9","B","E","I","J","I","N","G","1","1","7","6">>,
     pattern |-> Lit(<<"X","X","X","D","I","S","C","U","S","S","E","S">>),
     repl |-> <<"X","X","X"," ","D","I","S","C","U","S","S","E","S">>],
    \* 09BEIJING2438: "NEGOTIATE SE\\s+CRETLY" -> "NEGOTIATE SECRETLY"
    [id |-> <<"0","9","B","E","I","J","I","N","G","2","4","3","8">>,
     pattern |-> Cat(<<Lit(<<"N","E","G","O","T","I","A","T","E"," ","S","E">>), Plus(In(Space)), Lit(<<"C","R","E","T","L","Y">>)>>),
     repl |-> <<"N","E","G","O","T","I","A","T","E"," ","S","E","C","R","E","T","L","Y">>],
    \* 09STATE30049: "Secretary Clinton\u2019s March 24, 2009 \n\n" -> "Secretary Clinton\u2019s March 24, 2009 \n"
    [id |-> <<"0","9","S","T","A","T","E","3","0","0","4","9">>,
     pattern |-> Lit(<<"S","e","c","r","e","t","a","r","y"," ","C","l","i","n","t","o","n","U+2019","s"," ","M","a","r","c","h"," ","2","4",","," ","2","0","0","9"," ","\n","\n">>),
     repl |-> <<"S","e","c","r","e","t","a","r","y"," ","C","l","i","n","t","o","n","U+2019","s"," ","M","a","r","c","h"," ","2","4",","," ","2","0","0","9"," ","\n">>],
    \* 09CAIRO544: "\nBLOGGERS MOVING" -> "\nSUBJECT: BLOGGERS MOVING"
    [id |-> <<"0","9","C","A","I","R","O","5","4","4">>,
     pattern |-> Lit(<<"\n","B","L","O","G","G","E","R","S"," ","M","O","V","I","N","G">>),
     repl |-> <<"\n","S","U","B","J","E","C","T",":"," ","B","L","O","G","G","E","R","S"," ","M","O","V","I","N","G">>],
    \* 09CAIRO211: "EG\nEGYPT'S 54" -> "EG\nSUBJECT: EGYPT'S 54"
    [id |-> <<"0","9","C","A","I","R","O","2","1","1">>,
     pattern |-> Lit(<<"E","G","\n","E","G","Y","P","T","'","S"," ","5","4">>),
     repl |-> <<"E","G","\n","S","U","B","J","E","C","T",":"," ","E","G","Y","P","T","'","S"," ","5","4">>],
    \* 09CAIRO1468: "EG\nXXXXXXXXXXXX:" -> "EG\nSUBJECT: XXXXXXXXXXXX:"
    [id |-> <<"0","9","C","A","I","R","O","1","4","6","8">>,
     pattern |-> Lit(<<"E","G","\n","X","X","X","X","X","X","X","X","X","X","X","X",":">>),
     repl |-> <<"E","G","\n","S","U","B","J","E","C","T",":"," ","X","X","X","X","X","X","X","X","X","X","X","X",":">>],
    \* 09BAKU687: "IR\nClassified By:" -> "IR\nSUBJECT: IRAN: NINJA BLACK BELT MASTER DETAILS USE OF\n
    [id |-> <<"0","9","B","A","K","U","6","8","7">>,
     pattern |-> Lit(<<"I","R","\n","C","l","a","s","s","i","f","i","e","d"," ","B","y",":">>),
     repl |-> <<"I","R","\n","S","U","B","J","E","C","T",":"," ","I","R","A","N",":"," ","N","I","N","J","A"," ","B","L","A","C","K"," ","B","E","L","T"," ","M","A","S","T","E","R"," ","D","E","T","A","I","L","S"," ","U","S","E"," ","O","F","\n","M","A","R","T","I","A","L"," ","A","R","T","S"," ","C","L","U","B","S"," ","F","O","R"," ","R","E","P","R","E","S","S","I","O","N",";"," ","x","x","x","x","x","x","x","x","x","x","x","x","\n","\n","R","E","F",":"," ","a",")"," ","B","A","K","U"," ","5","7","5","\n","\n","C","l","a","s","s","i","f","i","e","d"," ","B","y",":">>],
    \* 08KYIV2414: "UP[ ]*\\n1." -> "UP\nSUBJECT: UKRAINE: FIRTASH MAKES HIS CASE TO THE USG\nRE
    [id |-> <<"0","8","K","Y","I","V","2","4","1","4">>,
     pattern |-> Cat(<<Lit(<<"U","P">>), Star(In({" "})), Lit(<<"\n","1">>), Dot>>),
     repl |-> <<"U","P","\n","S","U","B","J","E","C","T",":"," ","U","K","R","A","I","N","E",":"," ","F","I","R","T","A","S","H"," ","M","A","K","E","S"," ","H","I","S"," ","C","A","S","E"," ","T","O"," ","T","H","E"," ","U","S","G","\n","R","E","F",":"," ","A","."," ","K","Y","I","V"," ","2","3","8","3"," ","B","."," ","K","Y","I","V"," ","2","2","9","4","\n","\n","1",".","\n">>],
    \* 09CAIRO79: "EG\n\nClassified" -> "\nSUBJECT: GOE STRUGGLING TO ADDRESS POLICE BRUTALITY\n\nRE
    [id |-> <<"0","9","C","A","I","R","O","7","9">>,
     pattern |-> Lit(<<"E","G","\n","\n","C","l","a","s","s","i","f","i","e","d">>),
     repl |-> <<"\n","S","U","B","J","E","C","T",":"," ","G","O","E"," ","S","T","R","U","G","G","L","I","N","G"," ","T","O"," ","A","D","D","R","E","S","S"," ","P","O","L","I","C","E"," ","B","R","U","T","A","L","I","T","Y","\n","\n","R","E","F",":"," ","A","."," ","0","8"," ","C","A","I","R","O"," ","2","4","3","1","\n","B","."," ","0","8"," ","C","A","I","R","O"," ","2","4","3","0","\n","C","."," ","0","8"," ","C","A","I","R","O"," ","2","2","6","0","\n","D","."," ","0","8"," ","C","A","I","R","O"," ","7","8","3","\n","E","."," ","0","7"," ","C","A","I","R","O"," ","3","2","1","4","\n","F","."," ","0","7"," ","C","A","I","R","O"," ","2","8","4","5","\n">>],
    \* 06SAOPAULO348: "BR\n\\(B\\) Sao Paulo 215;" -> "BR\nREF: (B) Sao Paulo 215;"
    [id |-> <<"0","6","S","A","O","P","A","U","L","O","3","4","8">>,
     pattern |-> Lit(<<"B","R","\n","(","B",")"," ","S","a","o"," ","P","a","u","l","o"," ","2","1","5",";">>),
     repl |-> <<"B","R","\n","R","E","F",":"," ","(","B",")"," ","S","a","o"," ","P","a","u","l","o"," ","2","1","5",";">>],
    \* 09TRIPOLI63: "LY\n\nCLASSIFIED BY:" -> "LY\n\nSUBJECT: RISKY BUSINESS? AMERICAN CONSTRUCTION FIRM E
    [id |-> <<"0","9","T","R","I","P","O","L","I","6","3">>,
     pattern |-> Lit(<<"L","Y","\n","\n","C","L","A","S","S","I","F","I","E","D"," ","B","Y",":">>),
     repl |-> <<"L","Y","\n","\n","S","U","B","J","E","C","T",":"," ","R","I","S","K","Y"," ","B","U","S","I","N","E","S","S","?"," ","A","M","E","R","I","C","A","N"," ","C","O","N","S","T","R","U","C","T","I","O","N"," ","F","I","R","M"," ","E","N","T","E","R","S"," ","J","O","I","N","T"," ","V","E","N","T","U","R","E"," ","W","I","T","H"," ","G","O","L"," ","[","8","4","6","6","9","3","6","]","\n","\n","C","L","A","S","S","I","F","I","E","D"," ","B","Y",":">>]
>>

\* re.sub(pattern, repl, content) of fix_content: the pattern is compiled without flags
fix_sub(e, c) == Sub(Compile(e.pattern, 0, FALSE, FALSE, FALSE), e.repl, c, 0)

\* a module-level name bound to None, or to the dict d
NoneDict == [isNone |-> TRUE, d |-> <<>>]
Dict(d) == [isNone |-> FALSE, d |-> d]

\* the module after import: _NAME2ROUTE is None, _CABLE_FIXES is its dict
\* display, nothing is logged and no call runs; clean and fix_subject are the
\* defaults of parse_subject
Imported ==
    /\ globals = [_NAME2ROUTE |-> NoneDict, _CABLE_FIXES |-> _CABLE_FIXES]
    /\ log = <<>>
    /\ frames = <<>>
    /\ clean = TRUE
    /\ fix_subject = TRUE

\* mutant of fix_content: a cable without an entry gets the entry of
\* 08MANAMA492
fix_content_Borrowed(c, id) ==
    IF HasKey(globals._CABLE_FIXES, id)
    THEN fix_sub(Entry(globals._CABLE_FIXES, id), c)
    ELSE fix_sub(Entry(globals._CABLE_FIXES, <<"0","8","M","A","N","A","M","A","4","9","2">>), c)

\* fix_content reads the dict the name _CABLE_FIXES is bound to when it runs
fix_content(c, id) ==
    IF HasKey(globals._CABLE_FIXES, id)
    THEN fix_sub(Entry(globals._CABLE_FIXES, id), c)
    ELSE c

(* The driver: fix a text, then fix the result again. *)

MaxPieces == 3

\* a cable without an entry in _CABLE_FIXES (the one of fix_content's doctest)
UnknownId == <<"0","9","U","N","K","N","O","W","N","I","D","3","1","2","2">>

FixIds == {_CABLE_FIXES[k].id : k \in 1..Len(_CABLE_FIXES)} \cup {UnknownId}

\* the pieces the texts of a cable are made of: the parts of the text its
\* pattern is about, a blank and a line break
FixPieces(id) ==
    (CASE id = <<"0","8","M","A","N","A","M","A","4","9","2">> -> <<<<"T","O","R","U","E","H","C","/","S","E","C","S","T","A","T","E">>, <<"T","O">>>>
       [] id = <<"0","8","E","C","T","I","O","N","0","1","O","F","0","2","M","A","N","A","M","A","4","9","2">> -> <<<<"T","O","R","U","E","H","C","/","S","E","C","S","T","A","T","E">>, <<"T","O">>>>
       [] id = <<"0","8","T","R","I","P","O","L","I","4","0","2">> -> <<<<"J","A","M","A","H","I","R","I","Y","A","-","S","T","Y","L","E">>, <<"Q",":"," ","A",")"," ","T","R","I","P","O","L","I">>>>
       [] id = <<"0","7","H","A","V","A","N","A","2","5","2">> -> <<<<"X","X","X","N","E","E","D"," ","A"," ","M","I","L","L","I","O","N">>, <<"X">>>>
       [] id = <<"0","9","B","E","I","J","I","N","G","1","1","7","6">> -> <<<<"X","X","X","D","I","S","C","U","S","S","E","S">>, <<"X">>>>
       [] id = <<"0","9","B","E","I","J","I","N","G","2","4","3","8">> -> <<<<"N","E","G","O","T","I","A","T","E"," ","S","E">>, <<"C","R","E","T","L","Y">>>>
       [] id = <<"0","9","S","T","A","T","E","3","0","0","4","9">> -> <<<<"S","e","c","r","e","t","a","r","y"," ","C","l","i","n","t","o","n","U+2019","s"," ","M","a","r","c","h"," ","2","4",","," ","2","0","0","9"," ">>, <<"\n","\n">>>>
       [] id = <<"0","9","C","A","I","R","O","5","4","4">> -> <<<<"B","L","O","G","G","E","R","S"," ","M","O","V","I","N","G">>, <<"S","U","B","J","E","C","T",":"," ">>>>
       [] id = <<"0","9","C","A","I","R","O","2","1","1">> -> <<<<"E","G">>, <<"E","G","Y","P","T","'","S"," ","5","4">>>>
       [] id = <<"0","9","C","A","I","R","O","1","4","6","8">> -> <<<<"E","G">>, <<"X","X","X","X","X","X","X","X","X","X","X","X",":">>>>
       [] id = <<"0","9","B","A","K","U","6","8","7">> -> <<<<"I","R">>, <<"C","l","a","s","s","i","f","i","e","d"," ","B","y",":">>>>
       [] id = <<"0","8","K","Y","I","V","2","4","1","4">> -> <<<<"U","P">>, <<"1",".">>>>
       [] id = <<"0","9","C","A","I","R","O","7","9">> -> <<<<"E","G","\n">>, <<"C","l","a","s","s","i","f","i","e","d">>>>
       [] id = <<"0","6","S","A","O","P","A","U","L","O","3","4","8">> -> <<<<"B","R">>, <<"(","B",")"," ","S","a","o"," ","P","a","u","l","o"," ","2","1","5",";">>>>
       [] id = <<"0","9","T","R","I","P","O","L","I","6","3">> -> <<<<"L","Y","\n">>, <<"C","L","A","S","S","I","F","I","E","D"," ","B","Y",":">>>>
       [] OTHER -> <<<<"B","L","O","G","G","E","R","S"," ","M","O","V","I","N","G">>, <<"T","O","R","U","E","H","C","/","S","E","C","S","T","A","T","E">>>>)
    \o <<<<" ">>, <<"\n">>>>

InitFix ==
    /\ pc = "start"
    /\ reference_id \in FixIds
    /\ content \in TextsOf(FixPieces(reference_id), MaxPieces)
    /\ content2 = <<>>
    /\ year = <<>>
    /\ out = <<>>
    /\ out2 = <<>>
    /\ cable = <<>>
    /\ error = ""
    /\ Imported

\* out = fix_content(content, reference_id)
FixContent ==
    /\ pc = "start"
    /\ out' = fix_content(content, reference_id)
    /\ pc' = "fixed"
    /\ UNCHANGED <<reference_id, content, content2, year, out2, cable, error>>
    /\ UNCHANGED rest

\* out2 = fix_content(out, reference_id)
FixContentAgain ==
    /\ pc = "fixed"
    /\ out2' = fix_content(out, reference_id)
    /\ pc' = "fixed twice"
    /\ UNCHANGED <<reference_id, content, content2, year, out, cable, error>>
    /\ UNCHANGED rest

NextFix == FixContent \/ FixContentAgain

SpecFix == InitFix /\ [][NextFix]_vars

\* C1: fix_content is idempotent: fixing the fixed text again changes nothing.
C1_Idempotent == pc = "fixed twice" => out2 = out

-----------------------------------------------------------------------------
(* header_body_from_content *)

\* None, where the source holds an offset or None
None == -1

\* x and y or z, for a match test x and offsets y, z (0 is false in Python)
AndOr(x, y, z) == IF x /\ y # 0 THEN y ELSE z
\* the truth value of an offset or None
Truthy(x) == x # None /\ x # 0


\* r'Classified[ ]+by[^\n]+', re.IGNORECASE
_CLASSIFIED_BY_PATTERN ==
    Compile(Cat(<<Lit(<<"C","l","a","s","s","i","f","i","e","d">>), Plus(In({" "})), Lit(<<"b","y">>), Plus(NotIn({"\n"}))>>),
            0, TRUE, FALSE, FALSE)

\* r'\n1. '
_FIRST_PARAGRAPH_PATTERN ==
    Compile(Cat(<<Lit(<<"\n","1">>), Dot, Lit(<<" ">>)>>), 0, FALSE, FALSE, FALSE)

\* The module assigns _SUMMARY_PATTERN twice (lines 243 and 751); when a
\* function runs, the name holds the later pattern:
\* r'(?:SUMMARY[ \-\n]*)(?::|\.|\s)(.+?)(?=(\n[ ]*\n)|(END[ ]+SUMMARY)|(----+))',
\* re.DOTALL|re.IGNORECASE|re.UNICODE
_SUMMARY_PATTERN ==
    Compile(Cat(<<Lit(<<"S","U","M","M","A","R","Y">>), Star(In({" ", "-", "\n"})),
                  Alt(<<Lit(<<":">>), Lit(<<".">>), In(Space)>>),
                  Grp(1, LazyPlus(Dot)),
                  Ahead(Alt(<<Grp(2, Cat(<<Lit(<<"\n">>), Star(In({" "})), Lit(<<"\n">>)>>)),
                              Grp(3, Cat(<<Lit(<<"E","N","D">>), Plus(In({" "})), Lit(<<"S","U","M","M","A","R","Y">>)>>)),
                              Grp(4, Cat(<<Lit(<<"-","-","-">>), Plus(Lit(<<"-">>))>>))>>))>>),
            4, TRUE, TRUE, FALSE)

\* m and m.end() or z, m and m.start() or z for a match object or None m
EndOr(m, z) == AndOr(m # NoMatch, m.end, z)
StartOr(m, z) == AndOr(m # NoMatch, m.start, z)

\* m = _CLASSIFIED_BY_PATTERN.search(content); idx = m and m.end() or 0
classified_by_idx(c) == EndOr(Search(_CLASSIFIED_BY_PATTERN, c, 0, Len(c)), 0)

\* m = _SUMMARY_PATTERN.search(content); summary_idx = m and m.start() or None
summary_idx(c) == StartOr(Search(_SUMMARY_PATTERN, c, 0, Len(c)), None)

\* m = _FIRST_PARAGRAPH_PATTERN.search(content); para_idx = m and m.start() or None
para_idx(c) == StartOr(Search(_FIRST_PARAGRAPH_PATTERN, c, 0, Len(c)), None)

\* mutant of cut_idx: an anchor before the end of the classified-by match is
\* taken as a failure to find the cut
cut_idx_AnchorOrNothing(idx, s_idx, p_idx) ==
    LET a == IF Truthy(s_idx) /\ Truthy(p_idx) THEN Min2(s_idx, p_idx)
             ELSE IF Truthy(s_idx) THEN s_idx ELSE p_idx
    IN  IF Truthy(s_idx) \/ Truthy(p_idx) THEN (IF idx <= a THEN a ELSE 0) ELSE idx

\* mutant of cut_idx: the anchors win over the classified-by match (no max)
cut_idx_NoMax(idx, s_idx, p_idx) ==
    IF Truthy(s_idx) /\ Truthy(p_idx) THEN Min2(s_idx, p_idx)
    ELSE IF Truthy(s_idx) THEN s_idx
    ELSE IF Truthy(p_idx) THEN p_idx
    ELSE idx

\* the if / elif chain on idx, summary_idx and para_idx
cut_idx(idx, s_idx, p_idx) ==
    IF Truthy(s_idx) /\ Truthy(p_idx) THEN Max2(idx, Min2(s_idx, p_idx))
    ELSE IF Truthy(s_idx) THEN Max2(s_idx, idx)
    ELSE IF Truthy(p_idx) THEN Max2(p_idx, idx)
    ELSE idx

\* the returned pair; (None, None) is NoneNone
NoneNone == [isNone |-> TRUE, header |-> <<>>, body |-> <<>>]

\* mutant of header_body: the body starts one character late
header_body_BodyLate(c, idx) ==
    IF idx > 0
    THEN [isNone |-> FALSE, header |-> Slice(c, 0, idx), body |-> Slice(c, idx + 1, Len(c))]
    ELSE NoneNone

\* if idx > 0: return content[:idx], content[idx:]; return None, None
header_body(c, idx) ==
    IF idx > 0
    THEN [isNone |-> FALSE, header |-> Slice(c, 0, idx), body |-> Slice(c, idx, Len(c))]
    ELSE NoneNone

header_body_from_content(c) ==
    header_body(c, cut_idx(classified_by_idx(c), summary_idx(c), para_idx(c)))

(* The driver: two synthetic documents made of the same pieces, the second *)
(* with its classified-by line moved later (exchanged with a later line    *)
(* of the same length), are both segmented.                                *)

MaxSegPieces == 4

\* a classified-by line, a line of the same length without an anchor, a
\* first numbered paragraph, a summary with its end
SegPieces == <<<<"C","l","a","s","s","i","f","i","e","d"," ","B","y",":"," ","A","B","\n">>, <<"x","x","x","x","x","x","x","x","x","x","x","x","x","x","x","x","x","\n">>, <<"\n","1","."," ","(","C",")"," ">>,
               <<"S","u","m","m","a","r","y",":"," ","a","b","\n","\n">>>>

SegDoc(f) == Concat([k \in DOMAIN f |-> SegPieces[f[k]]])
Exchange(f, j, k) == [f EXCEPT ![j] = f[k], ![k] = f[j]]

InitSeg ==
    /\ pc = "start"
    /\ \E m \in 0..MaxSegPieces :
         \E f \in [1..m -> 1..Len(SegPieces)] :
           /\ content = SegDoc(f)
           /\ \/ content2 = content
              \/ \E j, k \in 1..m :
                   j < k /\ f[j] = 1 /\ f[k] = 2 /\ content2 = SegDoc(Exchange(f, j, k))
    /\ reference_id = <<>>
    /\ year = <<>>
    /\ out = NoneNone
    /\ out2 = NoneNone
    /\ cable = <<>>
    /\ error = ""
    /\ Imported

\* out = header_body_from_content(content)
Segment ==
    /\ pc = "start"
    /\ out' = header_body_from_content(content)
    /\ pc' = "first"
    /\ UNCHANGED <<reference_id, content, content2, year, out2, cable, error>>
    /\ UNCHANGED rest

\* out2 = header_body_from_content(content2)
SegmentOther ==
    /\ pc = "first"
    /\ out2' = header_body_from_content(content2)
    /\ pc' = "both"
    /\ UNCHANGED <<reference_id, content, content2, year, out, cable, error>>
    /\ UNCHANGED rest

NextSeg == Segment \/ SegmentOther

SpecSeg == InitSeg /\ [][NextSeg]_vars

\* the cut index a returned pair stands for: len(header), 0 for (None, None)
CutOf(r) == IF r.isNone THEN 0 ELSE Len(r.header)
\* whether the classified-by pattern matches in c, and where the match ends
ClassifiedByFound(c) == Search(_CLASSIFIED_BY_PATTERN, c, 0, Len(c)) # NoMatch
ClassifiedByEnd(c) == Search(_CLASSIFIED_BY_PATTERN, c, 0, Len(c)).end

\* C6: of two documents with the summary anchor and the first numbered
\* paragraph at the same offsets, the one whose classified-by match ends later
\* is not cut earlier.
C6_Monotone ==
    (/\ pc = "both"
     /\ ClassifiedByFound(content) /\ ClassifiedByFound(content2)
     /\ ClassifiedByEnd(content) <= ClassifiedByEnd(content2)
     /\ para_idx(content) = para_idx(content2)
     /\ summary_idx(content) = summary_idx(content2))
    => CutOf(out) <= CutOf(out2)

\* C6 witness: both segmented, the summary anchor and the first numbered
\* paragraph present, the classified-by line moved later, and the cut moved
\* with it.
C6_Witness ==
    /\ pc = "both"
    /\ summary_idx(content) = summary_idx(content2) /\ Truthy(summary_idx(content))
    /\ para_idx(content) = para_idx(content2) /\ Truthy(para_idx(content))
    /\ ClassifiedByFound(content) /\ ClassifiedByFound(content2)
    /\ ClassifiedByEnd(content) < ClassifiedByEnd(content2)
    /\ CutOf(out) < CutOf(out2)

\* C7: a returned header reaches at least to the end of the classified-by match.
C7_CutNotBeforeClassifiedBy ==
    (pc # "start" /\ ClassifiedByFound(content) /\ ~out.isNone)
    => Len(out.header) >= ClassifiedByEnd(content)

\* C7 witness: a summary anchor and a paragraph anchor both lie before the
\* end of the classified-by match, and the header ends where that match ends.
C7_Witness ==
    /\ pc # "start" /\ ClassifiedByFound(content) /\ ~out.isNone
    /\ Truthy(summary_idx(content)) /\ summary_idx(content) < ClassifiedByEnd(content)
    /\ Truthy(para_idx(content)) /\ para_idx(content) < ClassifiedByEnd(content)
    /\ Len(out.header) = ClassifiedByEnd(content)

\* C8: the result is (content[:idx], content[idx:]) for a cut index idx > 0 and
\* (None, None) otherwise; a returned header is not empty and header + body is
\* the content.
C8_PairOrNone ==
    pc # "start" =>
      LET idx == cut_idx(classified_by_idx(content), summary_idx(content), para_idx(content))
      IN  /\ idx > 0 => /\ ~out.isNone
                        /\ out.header = Slice(content, 0, idx)
                        /\ out.body = Slice(content, idx, Len(content))
          /\ idx <= 0 => out = NoneNone
          /\ ~out.isNone => out.header # <<>> /\ out.header \o out.body = content

\* C8 witness: a pair with a non-empty body was returned.
C8_Witness == pc # "start" /\ ~out.isNone /\ out.body # <<>> /\ out.header # <<>>

-----------------------------------------------------------------------------
(* parse_references *)

\* the max. index where the reader looks for the subject, TAGS and references
_MAX_HEADER_IDX == 1200

\* r'(?:[\nPROGRAM ]*REF|REF\(S\):?\s*)([^\n]+(\n\s*[0-9]+[,\s]+[^\n]+)?)',
\* re.IGNORECASE|re.UNICODE
_REF_START_PATTERN ==
    Compile(Cat(<<Alt(<<Cat(<<Star(In({"\n", "P", "R", "O", "G", "A", "M", " "})), Lit(<<"R","E","F">>)>>),
                        Cat(<<Lit(<<"R","E","F","(","S",")">>), Opt(Lit(<<":">>)), Star(In(Space))>>)>>),
                  Grp(1, Cat(<<Plus(NotIn({"\n"})),
                               Opt(Grp(2, Cat(<<Lit(<<"\n">>), Star(In(Space)), Plus(In(Digits)),
                                                Plus(In({","} \cup Space)),
                                                Plus(NotIn({"\n"}))>>)))>>))>>),
            2, TRUE, FALSE, FALSE)

\* r'(\n?[ ]*[A-Z](?:\.(?!O\.|S\.)|\))[^\n]+)', re.IGNORECASE|re.UNICODE
_REF_LAST_REF_PATTERN ==
    Compile(Grp(1, Cat(<<Opt(Lit(<<"\n">>)), Star(In({" "})), In(UpperSet),
                         Alt(<<Cat(<<Lit(<<".">>), NotAhead(Alt(<<Lit(<<"O",".">>), Lit(<<"S",".">>)>>))>>),
                               Lit(<<")">>)>>),
                         Plus(NotIn({"\n"}))>>)),
            1, TRUE, FALSE, FALSE)

\* r'(?:[A-Z](?:\.|\))\s*)?([0-9]{2,4})?(?:\s*)([A-Z ]*[A-Z ]*[A-Z]{2,})(?:\s+)([0-9]+)',
\* re.MULTILINE|re.UNICODE|re.IGNORECASE
_REF_PATTERN ==
    Compile(Cat(<<Opt(Cat(<<In(UpperSet), Alt(<<Lit(<<".">>), Lit(<<")">>)>>), Star(In(Space))>>)),
                  Opt(Grp(1, Rep(In(Digits), 2, 4, TRUE))),
                  Star(In(Space)),
                  Grp(2, Cat(<<Star(In(UpperSet \cup {" "})), Star(In(UpperSet \cup {" "})),
                               Rep(In(UpperSet), 2, -1, TRUE)>>)),
                  Plus(In(Space)),
                  Grp(3, Plus(In(Digits)))>>),
            3, TRUE, FALSE, TRUE)

\* r'\n[0-9]\.[ ]*(?:\([A-Z]+\))?', re.IGNORECASE|re.UNICODE
_REF_NOT_REF_PATTERN ==
    Compile(Cat(<<Lit(<<"\n">>), In(Digits), Lit(<<".">>), Star(In({" "})),
                  Opt(Cat(<<Lit(<<"(">>), Plus(In(UpperSet)), Lit(<<")">>)>>))>>),
            0, TRUE, FALSE, FALSE)

\* 'classified by', re.IGNORECASE|re.UNICODE
_REF_STOP_PATTERN == Compile(Lit(<<"c","l","a","s","s","i","f","i","e","d"," ","b","y">>), 0, TRUE, FALSE, FALSE)

\* r'PAGE [0-9]+ [A-Z]+ [0-9]+ [0-9]+ OF [0-9]+ [A-Z0-9]+', re.UNICODE
_CLEAN_REFS_PATTERN ==
    Compile(Cat(<<Lit(<<"P","A","G","E"," ">>), Plus(In(Digits)), Lit(<<" ">>), Plus(In(UpperSet)), Lit(<<" ">>),
                  Plus(In(Digits)), Lit(<<" ">>), Plus(In(Digits)), Lit(<<" ","O","F"," ">>),
                  Plus(In(Digits)), Lit(<<" ">>), Plus(In(UpperSet \cup Digits))>>),
            0, FALSE, FALSE, FALSE)

\* cablemap.core.constants.REFERENCE_ID_PATTERN, the shape of a cable
\* identifier: two digits of the year, the origin, the sequence number
REFERENCE_ID_PATTERN ==
    Compile(Cat(<<Rep(In(Digits), 2, 2, TRUE), Plus(In(UpperSet)), Plus(In(Digits))>>),
            0, FALSE, FALSE, FALSE)

\* s.replace(a, b) for characters a and b
ReplaceChar(s, a, b) == [k \in 1..Len(s) |-> IF s[k] = a THEN b ELSE s[k]]
\* s.replace(a, '') for a character a
RemoveChar(s, a) == SelectSeq(s, LAMBDA c : c # a)
\* '%d' % int(sn) for a text sn of digits: sn without its leading zeros
IntText(sn) ==
    LET nz == {k \in 1..Len(sn) : sn[k] # "0"}
    IN  IF nz = {} THEN <<"0">>
        ELSE SubSeq(sn, CHOOSE k \in nz : \A j \in nz : k <= j, Len(sn))

\* format_year of parse_references
format_year(y, yr) ==
    LET y1 == IF y = <<>> THEN yr ELSE y
    IN  IF Len(y1) > 2 THEN Slice(y1, 2, Len(y1)) ELSE y1

\* mutant of ref_origin: the aliases are not folded
ref_origin_Plain(origin) == UpperStr(RemoveChar(origin, " "))

\* the origin of a reference: blanks removed, upper case, the aliases folded
ref_origin(origin) ==
    LET o == UpperStr(RemoveChar(origin, " "))
    IN  IF o \in {<<"R","I","O">>, <<"R","I","O","D","E","J","A","N">>} THEN <<"R","I","O","D","E","J","A","N","E","I","R","O">>
        ELSE IF o \in {<<"S","E","C","S","T","A","T","E">>, <<"S","E","C","D","E","F">>} THEN <<"S","T","A","T","E">>
        ELSE IF o \in {<<"U","N","V","I","E">>, <<"E","M","B","A","S","S","Y","V","I","E","N","N","A">>} THEN <<"U","N","V","I","E","N","N","A">>
        ELSE o

\* reference = u'%s%s%d' % (y, origin, int(sn)) for one match of _REF_PATTERN in refs
ref_reference(refs, m, yr) ==
    format_year(Group(refs, m, 1), yr) \o ref_origin(Group(refs, m, 2)) \o IntText(Group(refs, m, 3))

\* the while loop: last_end after the last line of the reference block
RECURSIVE ref_last_end(_, _, _)
\* while m_end: last_end = m_end.end(); m_end = _REF_LAST_REF_PATTERN.search(...)
ref_while(c, last_end, max_idx, m_end) ==
    IF m_end # NoMatch THEN ref_last_end(c, m_end.end, max_idx) ELSE last_end

ref_last_end(c, last_end, max_idx) ==
    ref_while(c, last_end, max_idx, Search(_REF_LAST_REF_PATTERN, c, last_end, max_idx))

\* refs for m_start and last_end: the text of the reference block, or <<>>
\* when "m_start and last_end" is false
ref_refs(c, m_start, last_end) ==
    IF m_start # NoMatch /\ last_end # 0
    THEN Sub(_CLEAN_REFS_PATTERN, <<>>,
             ReplaceChar(Slice(c, m_start.groups[1][1], last_end), "\n", " "), 0)
    ELSE <<>>

\* steps 3 and 4 for m_start and the first max_idx: the paragraph in the
\* references, the next max_idx, the while loop
ref_from(c, m_start, max_idx) ==
    ref_refs(c, m_start,
             ref_last_end(c, EndOr(m_start, 0),
                          Min2(StartOr(Search(_REF_NOT_REF_PATTERN, c, EndOr(m_start, 0), max_idx),
                                       _MAX_HEADER_IDX),
                               max_idx)))

\* step 2 for the first max_idx: m_start
ref_upto(c, max_idx) == ref_from(c, Search(_REF_START_PATTERN, c, 0, max_idx), max_idx)

\* refs; step 1: max_idx = m_stop and m_stop.start() or _MAX_HEADER_IDX
ref_block(c) ==
    ref_upto(c, StartOr(Search(_REF_STOP_PATTERN, c, 0, Len(c)), _MAX_HEADER_IDX))

\* the references of the matches ms of _REF_PATTERN in refs
ref_each(refs, ms, yr) == [k \in 1..Len(ms) |-> ref_reference(refs, ms[k], yr)]

ref_found(refs, yr) == ref_each(refs, FindAll(_REF_PATTERN, refs, 0), yr)

\* the references built in the for loop, before any is dropped
ref_candidates(c, yr) == ref_found(ref_block(c), yr)

\* mutant of ref_keep: the reference is not compared with the cable's identifier
ref_keep_NoSelfTest(reference, res, id) ==
    IF MatchAt(REFERENCE_ID_PATTERN, reference, 0, Len(reference)) = NoMatch THEN res
    ELSE Append(res, reference)

\* the body of the for loop for one reference: continue, or res.append(reference)
ref_keep(reference, res, id) ==
    IF MatchAt(REFERENCE_ID_PATTERN, reference, 0, Len(reference)) = NoMatch THEN res
    ELSE IF reference # id THEN Append(res, reference)
    ELSE res

RECURSIVE ref_loop(_, _, _, _)
ref_loop(cands, k, res, id) ==
    IF k > Len(cands) THEN res ELSE ref_loop(cands, k + 1, ref_keep(cands[k], res, id), id)

parse_references(c, yr, id) == ref_loop(ref_candidates(c, yr), 1, <<>>, id)

\* max_idx of step 1, m_start of step 2, max_idx of step 4
ref_max_idx(c) == StartOr(Search(_REF_STOP_PATTERN, c, 0, Len(c)), _MAX_HEADER_IDX)
ref_m_start(c) == Search(_REF_START_PATTERN, c, 0, ref_max_idx(c))
ref_next_max_idx(c, m_start, max_idx) ==
    Min2(StartOr(Search(_REF_NOT_REF_PATTERN, c, EndOr(m_start, 0), max_idx), _MAX_HEADER_IDX),
         max_idx)

\* m_end when the while loop is left: the result of the search it made last,
\* the one from the last value of last_end
ref_m_end(c, last_end, max_idx) ==
    Search(_REF_LAST_REF_PATTERN, c, ref_last_end(c, last_end, max_idx), max_idx)

\* "if m_end and not m_start: logger.warn(...)"
ref_warned(c, id, lg, m_start, m_end) ==
    IF m_end # NoMatch /\ m_start = NoMatch
    THEN Append(lg, [level |-> "warn", msg |-> <<"Found ref end but no start in", id, c>>])
    ELSE lg

ref_logged(c, id, lg, m_start, max_idx) ==
    ref_warned(c, id, lg, m_start,
               ref_m_end(c, EndOr(m_start, 0), ref_next_max_idx(c, m_start, max_idx)))

\* the logger's records after parse_references(c, year, id)
ref_log(c, id, lg) == ref_logged(c, id, lg, ref_m_start(c), ref_max_idx(c))

(* The driver: the references of a text are parsed. *)

MaxRefPieces == 3

\* the start of a reference block, a reference without a year, a reference
\* line with a year, a classified-by line, a first numbered paragraph
RefPieces == <<<<"R","E","F",":"," ">>, <<"A",")"," ","O","S","L","O"," ","1","2","3"," ">>, <<"\n","B","."," ","0","9"," ","O","S","L","O"," ","9","9","9">>,
               <<"\n","C","l","a","s","s","i","f","i","e","d"," ","b","y",":"," ","X">>, <<"\n","1","."," ","(","C",")"," ","O","n"," ">>>>

RefIds == {<<"0","9","O","S","L","O","9","9","9">>, <<"0","9","O","S","L","O","1","2","3">>}

InitRefs ==
    /\ pc = "start"
    /\ reference_id \in RefIds
    /\ content \in TextsOf(RefPieces, MaxRefPieces)
    /\ year = <<"2","0","0","9">>
    /\ content2 = <<>>
    /\ out = <<>>
    /\ out2 = <<>>
    /\ cable = <<>>
    /\ error = ""
    /\ Imported

\* out = parse_references(content, year, reference_id)
ParseReferences ==
    /\ pc = "start"
    /\ out' = parse_references(content, year, reference_id)
    /\ log' = ref_log(content, reference_id, log)
    /\ pc' = "done"
    /\ UNCHANGED <<reference_id, content, content2, year, out2, cable, error>>
    /\ UNCHANGED <<clean, fix_subject, globals, frames>>

NextRefs == ParseReferences

SpecRefs == InitRefs /\ [][NextRefs]_vars

NoDuplicates(l) == \A j, k \in 1..Len(l) : j # k => l[j] # l[k]

\* C2: the list parse_references returns holds no element twice.
C2_NoDuplicates == pc = "done" => NoDuplicates(out)

\* C3: the list parse_references returns never holds the cable's own identifier.
C3_NoSelfReference == pc = "done" => \A k \in 1..Len(out) : out[k] # reference_id

\* C3 witness: the block names the cable itself and another cable; the other
\* one is returned.
C3_Witness ==
    /\ pc = "done"
    /\ LET cands == ref_candidates(content, year)
       IN  \E k \in 1..Len(cands) : cands[k] = reference_id
    /\ out # <<>>

-----------------------------------------------------------------------------
(* parse_tags *)

\* [A-Za-z_-]
TagChars == Letters \cup {"_", "-"}

\* r'(?:TAGS|TAG|AGS:)(?::\s*|\s+)(.+)', re.IGNORECASE|re.UNICODE
_TAGS_PATTERN ==
    Compile(Cat(<<Alt(<<Lit(<<"T","A","G","S">>), Lit(<<"T","A","G">>), Lit(<<"A","G","S",":">>)>>),
                  Alt(<<Cat(<<Lit(<<":">>), Star(In(Space))>>), Plus(In(Space))>>),
                  Grp(1, Plus(Dot))>>),
            1, TRUE, FALSE, FALSE)

\* r'(SUBJECT:)', re.IGNORECASE|re.UNICODE
_TAGS_SUBJECT_PATTERN == Compile(Grp(1, Lit(<<"S","U","B","J","E","C","T",":">>)), 1, TRUE, FALSE, FALSE)

\* r'(?:\n)([a-zA-Z_-]+.+)', re.MULTILINE|re.UNICODE
_TAGS_CONT_PATTERN ==
    Compile(Cat(<<Lit(<<"\n">>), Grp(1, Cat(<<Plus(In(TagChars)), Plus(Dot)>>))>>),
            1, FALSE, FALSE, TRUE)

\* r'\n[ ]*[A-Za-z_-]+[ ]*,', re.UNICODE
_TAGS_CONT_NEXT_LINE_PATTERN ==
    Compile(Cat(<<Lit(<<"\n">>), Star(In({" "})), Plus(In(TagChars)), Star(In({" "})), Lit(<<",">>)>>),
            0, FALSE, FALSE, FALSE)

\* the eight names, ([A-Za-z_-]+), (\([^\)]+\)) and
\* (?:,[ ]+)([A-Za-z_-]+[ ][A-Za-z_-]+); re.UNICODE|re.MULTILINE
_TAG_PATTERN ==
    Compile(Alt(<<
        Grp(1, Cat(<<Lit(<<"Z","O","E","L","L","I","C","K">>), Plus(In({" "})), Lit(<<"R","O","B","E","R","T">>)>>)),
        Grp(2, Cat(<<Lit(<<"G","A","Z","A">>), Plus(In({" "})), Lit(<<"D","I","S","E","N","G","A","G","E","M","E","N","T">>)>>)),
        Grp(3, Cat(<<Lit(<<"I","S","R","A","E","L","I">>), Plus(In({" "})), Lit(<<"P","A","L","E","S","T","I","N","I","A","N">>), Plus(In({" "})), Lit(<<"A","F","F","A","I","R","S">>)>>)),
        Grp(4, Cat(<<Lit(<<"C","O","U","N","T","E","R">>), Plus(In({" "})), Lit(<<"T","E","R","R","O","R","I","S","M">>)>>)),
        Grp(5, Cat(<<Lit(<<"C","L","I","N","T","O","N">>), Plus(In({" "})), Lit(<<"H","I","L","L","A","R","Y">>)>>)),
        Grp(6, Cat(<<Lit(<<"S","T","E","I","N","B","E","R","G">>), Plus(In({" "})), Lit(<<"J","A","M","E","S">>)>>)),
        Grp(7, Cat(<<Lit(<<"B","I","D","E","N">>), Plus(In({" "})), Lit(<<"J","O","S","E","P","H">>)>>)),
        Grp(8, Cat(<<Lit(<<"R","I","C","E">>), Plus(In({" "})), Lit(<<"C","O","N","D","O","L","E","E","Z","Z","A">>)>>)),
        Grp(9, Plus(In(TagChars))),
        Grp(10, Cat(<<Lit(<<"(">>), Plus(NotIn({")"})), Lit(<<")">>)>>)),
        Cat(<<Lit(<<",">>), Plus(In({" "})),
              Grp(11, Cat(<<Plus(In(TagChars)), In({" "}), Plus(In(TagChars))>>))>>)>>),
            11, FALSE, FALSE, TRUE)

\* Used to normalize the TAG (corrects typos etc.)
_TAG_FIXES == <<
    [id |-> <<"C","L","I","N","T","O","N"," ","H","I","L","L","A","R","Y">>, to |-> <<"C","L","I","N","T","O","N",","," ","H","I","L","L","A","R","Y">>],
    [id |-> <<"S","T","E","I","N","B","E","R","G"," ","J","A","M","E","S">>, to |-> <<"S","T","E","I","N","B","E","R","G",","," ","J","A","M","E","S"," ","B",".">>],
    [id |-> <<"B","I","D","E","N"," ","J","O","S","E","P","H">>, to |-> <<"B","I","D","E","N",","," ","J","O","S","E","P","H">>],
    [id |-> <<"Z","O","E","L","L","I","C","K"," ","R","O","B","E","R","T">>, to |-> <<"Z","O","E","L","L","I","C","K",","," ","R","O","B","E","R","T">>],
    [id |-> <<"R","I","C","E"," ","C","O","N","D","O","L","E","E","Z","Z","A">>, to |-> <<"R","I","C","E",","," ","C","O","N","D","O","L","E","E","Z","Z","A">>],
    [id |-> <<"C","O","U","N","T","E","R"," ","T","E","R","R","O","R","I","S","M">>, to |-> <<"C","O","U","N","T","E","R","T","E","R","R","O","R","I","S","M">>],
    [id |-> <<"M","O","P","P","S">>, to |-> <<"M","O","P","S">>],
    [id |-> <<"P","O","G","O","V">>, to |-> <<"P","G","O","V">>],
    [id |-> <<"R","U">>, to |-> <<"R","S">>],
    [id |-> <<"S","Y","R">>, to |-> <<"S","Y">>]>>

\* s.endswith(t)
EndsWith(s, t) == Len(t) <= Len(s) /\ StartsAt(s, t, Len(s) - Len(t))

\* s.split() for a text without leading or trailing white space
RECURSIVE Split(_)
Split(s) ==
    LET sp == {k \in 1..Len(s) : s[k] \in Space}
        k1 == CHOOSE k \in sp : \A j \in sp : k <= j
    IN  IF sp = {} THEN (IF s = <<>> THEN <<>> ELSE <<s>>)
        ELSE IF k1 = 1 THEN Split(Slice(s, 1, Len(s)))
        ELSE <<Slice(s, 0, k1 - 1)>> \o Split(Slice(s, k1, Len(s)))

\* tags and max_idx after "if msubj:"
tags_cut(tags, msubj) == IF msubj # NoMatch THEN Slice(tags, 0, msubj.start) ELSE tags
tags_max_idx(msubj) ==
    IF msubj # NoMatch THEN Min2(_MAX_HEADER_IDX, msubj.start) ELSE _MAX_HEADER_IDX

\* tags.endswith(',') or tags.endswith(', ') or
\* _TAGS_CONT_NEXT_LINE_PATTERN.match(content, min_idx, max_idx)
tags_cont(c, tags, min_idx, max_idx) ==
    \/ EndsWith(tags, <<",">>)
    \/ EndsWith(tags, <<","," ">>)
    \/ MatchAt(_TAGS_CONT_NEXT_LINE_PATTERN, c, min_idx, max_idx) # NoMatch

\* if m2: tags = u' '.join([tags, m2.group(1)])
tags_joined(c, tags, m2) ==
    IF m2 # NoMatch THEN tags \o <<" ">> \o Group(c, m2, 1) ELSE tags

\* tags, joined with the next line when the tags go on there
tags_next(c, m, tags, max_idx) ==
    tags_joined(c, tags,
                IF tags_cont(c, tags, m.end, max_idx)
                THEN MatchAt(_TAGS_CONT_PATTERN, c, m.end, Len(c))
                ELSE NoMatch)

tags_subj(c, m, tags, msubj) == tags_next(c, m, tags_cut(tags, msubj), tags_max_idx(msubj))

tags_group(c, m, tags) ==
    tags_subj(c, m, tags, Search(_TAGS_SUBJECT_PATTERN, tags, 0, Len(tags)))

\* the candidate tag text for the match m of _TAGS_PATTERN: the rest of the
\* TAGS line, cut at SUBJECT:, joined with the next line when the tags go on
\* there
tags_text(c, m) == tags_group(c, m, Group(c, m, 1))

\* u''.join(t) for the tuple t that findall gives for the match m
tag_join(s, m) == Concat([g \in 1..11 |-> Group(s, m, g)])

tag_each(tags, ms) == [k \in 1..Len(ms) |-> tag_join(tags, ms[k])]

\* the tokens of the candidate tag text, in order
tag_tokens(tags) == tag_each(tags, FindAll(_TAG_PATTERN, tags, 0))

\* u''.join(t).upper().replace(u')', u'').replace(u'(', u'')
tag_upper(tok) == RemoveChar(RemoveChar(UpperStr(tok), ")"), "(")

\* _TAG_FIXES.get(tag, tag)
tag_fix(tag) == IF HasKey(_TAG_FIXES, tag) THEN Entry(_TAG_FIXES, tag).to ELSE tag

\* mutant of tag_add: a new tag is put in front of the list
tag_add_InFront(tok, res) ==
    LET tag == tag_upper(tok)
    IN  IF tag = <<"P","T","E","R"," ","M","A","R","R">> THEN res \o Split(tag)
        ELSE IF tag = <<"P","H","U","M","B","A">> THEN res \o <<<<"P","H","U","M">>, <<"B","A">>>>
        ELSE IF \E k \in 1..Len(res) : res[k] = tag_fix(tag) THEN res
        ELSE <<tag_fix(tag)>> \o res

\* the body of the for loop for one token
tag_add(tok, res) ==
    LET tag == tag_upper(tok)
    IN  IF tag = <<"P","T","E","R"," ","M","A","R","R">> THEN res \o Split(tag)
        ELSE IF tag = <<"P","H","U","M","B","A">> THEN res \o <<<<"P","H","U","M">>, <<"B","A">>>>
        ELSE IF \E k \in 1..Len(res) : res[k] = tag_fix(tag) THEN res
        ELSE Append(res, tag_fix(tag))

RECURSIVE tag_loop(_, _, _)
tag_loop(toks, k, res) ==
    IF k > Len(toks) THEN res ELSE tag_loop(toks, k + 1, tag_add(toks[k], res))

\* parse_tags after m = _TAGS_PATTERN.search(content)
tags_of(c, m) ==
    IF m = NoMatch THEN <<>>
    ELSE tag_loop(tag_tokens(tags_text(c, m)), 1, <<>>)

parse_tags(c, id) == tags_of(c, Search(_TAGS_PATTERN, c, 0, Len(c)))

_CABLES_WITHOUT_TAGS ==
    {<<"0","6","K","A","B","U","L","3","9","3","4">>, <<"0","8","B","E","I","J","I","N","G","3","6","6","2">>, <<"0","9","R","O","M","E","8","7","8">>, <<"0","9","R","O","M","E","1","0","4","8">>, <<"0","8","R","O","M","E","4","5","1">>,
     <<"0","8","R","O","M","E","5","2","5">>, <<"0","4","Q","U","I","T","O","2","5","0","2">>, <<"0","4","Q","U","I","T","O","2","8","7","9">>, <<"0","5","P","A","N","A","M","A","1","5","8","9">>, <<"0","6","K","A","B","U","L","5","6","5","3">>,
     <<"0","7","P","A","N","A","M","A","4","0","0">>, <<"0","7","P","A","N","A","M","A","9","4","6">>, <<"0","1","C","A","I","R","O","5","7","7","0">>}

\* "if not m: if reference_id not in _CABLES_WITHOUT_TAGS: logger.debug(...)"
tags_missing(c, id, lg, m) ==
    IF m = NoMatch /\ id \notin _CABLES_WITHOUT_TAGS
    THEN Append(lg, [level |-> "debug", msg |-> <<"No TAGS found in cable ID", id, c>>])
    ELSE lg

\* the logger's records after parse_tags(c, id)
tags_log(c, id, lg) == tags_missing(c, id, lg, Search(_TAGS_PATTERN, c, 0, Len(c)))

(* The driver: the tags of a text are parsed. *)

MaxTagPieces == 3

\* plain tags, the two tags the code splits, a tag _TAG_FIXES renames, and
\* tags on a continuation line
TagPieces == <<<<"P","H","U","M",","," ">>, <<"P","H","U","M","B","A",","," ">>, <<"P","T","E","R",","," ">>, <<"P","T","E","R"," ","M","A","R","R",","," ">>, <<"R","U",","," ">>, <<"\n","K","C","R","M",","," ">>>>

TagIds == {<<"0","7","B","A","K","U","8","5","5">>, <<"0","9","O","S","L","O","9","9","9">>}

InitTags ==
    /\ pc = "start"
    /\ reference_id \in TagIds
    /\ content \in {prefix \o body : prefix \in {<<>>, <<"T","A","G","S",":"," ">>},
                                     body \in TextsOf(TagPieces, MaxTagPieces)}
    /\ year = <<>>
    /\ content2 = <<>>
    /\ out = <<>>
    /\ out2 = <<>>
    /\ cable = <<>>
    /\ error = ""
    /\ Imported

\* out = parse_tags(content, reference_id)
ParseTags ==
    /\ pc = "start"
    /\ out' = parse_tags(content, reference_id)
    /\ log' = tags_log(content, reference_id, log)
    /\ pc' = "done"
    /\ UNCHANGED <<reference_id, content, content2, year, out2, cable, error>>
    /\ UNCHANGED <<clean, fix_subject, globals, frames>>

NextTags == ParseTags

SpecTags == InitTags /\ [][NextTags]_vars

\* C4: the list parse_tags returns holds no tag twice.
C4_NoDuplicateTags == pc = "done" => NoDuplicates(out)

\* the tokens of the candidate tag text of the content, as the claim
\* canonicalizes them: upper case, parentheses stripped, _TAG_FIXES applied
CanonTokens ==
    LET m == Search(_TAGS_PATTERN, content, 0, Len(content))
    IN  IF m = NoMatch THEN <<>>
        ELSE LET toks == tag_tokens(tags_text(content, m))
             IN  [k \in 1..Len(toks) |-> tag_fix(tag_upper(toks[k]))]
\* whether the first token that canonicalizes to a comes before the first
\* token that canonicalizes to b
FirstTokenBefore(toks, a, b) ==
    \E i, j \in 1..Len(toks) :
        /\ toks[i] = a /\ \A h \in 1..(i - 1) : toks[h] # a
        /\ toks[j] = b /\ \A h \in 1..(j - 1) : toks[h] # b
        /\ i < j

\* C5 as stated: of two distinct tags of the result, a precedes b exactly
\* when the first token that canonicalizes to a comes before the first token
\* that canonicalizes to b.
C5_FirstSeenOrder ==
    pc = "done" =>
      LET toks == CanonTokens
      IN  \A j, k \in 1..Len(out) :
              out[j] # out[k] => ((j < k) <=> FirstTokenBefore(toks, out[j], out[k]))

\* the tags the tokens yield, in order, a split token counting as its parts
RECURSIVE Yields(_, _)
Yields(toks, k) ==
    IF k > Len(toks) THEN <<>>
    ELSE LET tag == tag_upper(toks[k])
         IN  (IF tag = <<"P","T","E","R"," ","M","A","R","R">> THEN <<<<"P","T","E","R">>, <<"M","A","R","R">>>>
              ELSE IF tag = <<"P","H","U","M","B","A">> THEN <<<<"P","H","U","M">>, <<"B","A">>>>
              ELSE <<tag_fix(tag)>>) \o Yields(toks, k + 1)
YieldedTags ==
    LET m == Search(_TAGS_PATTERN, content, 0, Len(content))
    IN  IF m = NoMatch THEN <<>>
        ELSE Yields(tag_tokens(tags_text(content, m)), 1)
\* the place of the first x in the list l, 0 when there is none
FirstAt(l, x) ==
    IF \E k \in 1..Len(l) : l[k] = x
    THEN CHOOSE k \in 1..Len(l) : l[k] = x /\ \A h \in 1..(k - 1) : l[h] # x
    ELSE 0

\* C5 amended: every yielded tag is in the result, and of two distinct tags
\* of the result, a's first place in the result is before b's exactly when
\* a is first yielded before b is, where a 'PTER MARR' token yields PTER then
\* MARR and a 'PHUMBA' token yields PHUM then BA.
C5_FirstYieldedOrder ==
    pc = "done" =>
      LET y == YieldedTags
      IN  /\ \A k \in 1..Len(out) : FirstAt(y, out[k]) > 0
          /\ \A k \in 1..Len(y) : FirstAt(out, y[k]) > 0
          /\ \A j, k \in 1..Len(out) :
               (FirstAt(out, out[j]) < FirstAt(out, out[k]))
                 <=> (FirstAt(y, out[j]) < FirstAt(y, out[k]))

\* C5 witness: a split token comes between two plain tags, one of them named
\* again after it, and three or more distinct tags are returned.
C5_Witness ==
    /\ pc = "done"
    /\ LET toks == CanonTokens
       IN  \E k \in 1..Len(toks) : toks[k] \in {<<"P","T","E","R"," ","M","A","R","R">>, <<"P","H","U","M","B","A">>}
    /\ LET y == YieldedTags
       IN  Len(y) > Cardinality({y[k] : k \in 1..Len(y)})
    /\ Cardinality({out[k] : k \in 1..Len(out)}) >= 3

-----------------------------------------------------------------------------
(* parse_meta *)

\* <table\s+class\s*=\s*(?:"|')cable(?:"|')\s*>.+?<td>\s*<a.+?>(.+?)</a>
\* and four times .+<td>\s*<a.+?>(.+?)</a>; re.MULTILINE|re.DOTALL
_META_PATTERN ==
    Compile(Cat(<<Lit(<<"<","t","a","b","l","e">>), Plus(In(Space)), Lit(<<"c","l","a","s","s">>), Star(In(Space)), Lit(<<"=">>),
                  Star(In(Space)), In({"\"", "'"}), Lit(<<"c","a","b","l","e">>), In({"\"", "'"}),
                  Star(In(Space)), Lit(<<">">>),
                  LazyPlus(Dot), Lit(<<"<","t","d",">">>), Star(In(Space)), Lit(<<"<","a">>), LazyPlus(Dot), Lit(<<">">>),
                  Grp(1, LazyPlus(Dot)), Lit(<<"<","/","a",">">>),
                  Plus(Dot), Lit(<<"<","t","d",">">>), Star(In(Space)), Lit(<<"<","a">>), LazyPlus(Dot), Lit(<<">">>),
                  Grp(2, LazyPlus(Dot)), Lit(<<"<","/","a",">">>),
                  Plus(Dot), Lit(<<"<","t","d",">">>), Star(In(Space)), Lit(<<"<","a">>), LazyPlus(Dot), Lit(<<">">>),
                  Grp(3, LazyPlus(Dot)), Lit(<<"<","/","a",">">>),
                  Plus(Dot), Lit(<<"<","t","d",">">>), Star(In(Space)), Lit(<<"<","a">>), LazyPlus(Dot), Lit(<<">">>),
                  Grp(4, LazyPlus(Dot)), Lit(<<"<","/","a",">">>),
                  Plus(Dot), Lit(<<"<","t","d",">">>), Star(In(Space)), Lit(<<"<","a">>), LazyPlus(Dot), Lit(<<">">>),
                  Grp(5, LazyPlus(Dot)), Lit(<<"<","/","a",">">>)>>),
            5, FALSE, TRUE, TRUE)

\* <a href=(?:"|')([^"']+)
_MEDIA_URLS_PATTERN ==
    Compile(Cat(<<Lit(<<"<","a"," ","h","r","e","f","=">>), In({"\"", "'"}), Grp(1, Plus(NotIn({"\"", "'"})))>>),
            1, FALSE, FALSE, FALSE)

\* cablemap.core.constants.MALFORMED_CABLE_IDS: invalid cable ID -> the cable
\* ID which would be correct (08ECTION01OF02MANAMA492 is the malformed
\* version of 08MANAMA492)
MALFORMED_CABLE_IDS == <<
    [id |-> <<"0","8","E","C","T","I","O","N","0","1","O","F","0","2","M","A","N","A","M","A","4","9","2">>, to |-> <<"0","8","M","A","N","A","M","A","4","9","2">>]>>

\* None, where the code expects a text
NoneText == <<"None">>

\* s.rfind(sub, lo, hi): the last offset in [lo, hi - len(sub)] where sub
\* occurs, -1 when there is none
RFind(s, sub, lo, hi) ==
    LET e == Min2(hi, Len(s))
        at == {i \in lo..(e - Len(sub)) : StartsAt(s, sub, i)}
    IN  IF at = {} THEN -1 ELSE CHOOSE i \in at : \A j \in at : j <= i

\* Cable.__init__
NewCable(id) ==
    [reference_id |-> id, origin |-> NoneText, header |-> NoneText, content |-> NoneText,
     created |-> NoneText, released |-> NoneText, classification |-> NoneText, media_uris |-> <<>>]

\* the errors parse_meta raises
SubstringNotFound == "substring not found"
TableNotFound == "Cable table not found"
UnexpectedResult == "Unexpected metadata result"
IdMismatch == "cable.reference_id != ref"

\* the match of _META_PATTERN in the last table region, NoMatch when a rindex
\* fails or the pattern does not match
meta_match(c) ==
    LET end_idx == RFind(c, <<"<","/","t","a","b","l","e",">">>, 0, Len(c))
        start_idx == IF end_idx = -1 THEN -1 ELSE RFind(c, <<"<","t","a","b","l","e"," ","c","l","a","s","s","=","'","c","a","b","l","e","'",">">>, 0, end_idx)
    IN  IF start_idx = -1 THEN NoMatch ELSE Search(_META_PATTERN, c, start_idx, end_idx)

\* MALFORMED_CABLE_IDS.get(ref)
malformed_get(ref) ==
    IF HasKey(MALFORMED_CABLE_IDS, ref) THEN Entry(MALFORMED_CABLE_IDS, ref).to ELSE NoneText

\* the first groups of the matches ms in t
meta_links(t, ms) == [k \in 1..Len(ms) |-> Group(t, ms[k], 1)]

\* if start_idx > 0: cable.media_uris = _MEDIA_URLS_PATTERN.findall(...)
meta_findall(c, at, end_idx, old) ==
    IF at > 0
    THEN meta_links(Slice(c, 0, end_idx),
                    FindAll(_MEDIA_URLS_PATTERN, Slice(c, 0, end_idx), at))
    ELSE old

\* the media IRIs: the links from the last 'Appears in these' of the region on
meta_media(c, start_idx, end_idx, old) ==
    meta_findall(c, RFind(c, <<"A","p","p","e","a","r","s"," ","i","n"," ","t","h","e","s","e">>, start_idx, end_idx), end_idx, old)

\* mutant of meta_assign: the dates are assigned before the identifiers are
\* compared
meta_assign_DatesFirst(c, cbl, start_idx, end_idx, m) ==
    IF m = NoMatch THEN [error |-> TableNotFound, cable |-> cbl]
    ELSE IF Len(m.groups) # 5 THEN [error |-> UnexpectedResult, cable |-> cbl]
    ELSE IF /\ cbl.reference_id # Group(c, m, 1)
            /\ malformed_get(Group(c, m, 1)) # cbl.reference_id
         THEN [error |-> IdMismatch,
               cable |-> [cbl EXCEPT !.created = Group(c, m, 2),
                                     !.released = Group(c, m, 3)]]
    ELSE [error |-> "",
          cable |-> [cbl EXCEPT !.created = Group(c, m, 2),
                                !.released = Group(c, m, 3),
                                !.origin = Group(c, m, 5),
                                !.classification = UpperStr(Group(c, m, 4)),
                                !.media_uris = meta_media(c, start_idx, end_idx, cbl.media_uris)]]

\* parse_meta after m = _META_PATTERN.search(file_content, start_idx, end_idx):
\* the two tests of m, the test of the identifier, the assignments
meta_assign(c, cbl, start_idx, end_idx, m) ==
    IF m = NoMatch THEN [error |-> TableNotFound, cable |-> cbl]
    ELSE IF Len(m.groups) # 5 THEN [error |-> UnexpectedResult, cable |-> cbl]
    ELSE IF /\ cbl.reference_id # Group(c, m, 1)
            /\ malformed_get(Group(c, m, 1)) # cbl.reference_id
         THEN [error |-> IdMismatch, cable |-> cbl]
    ELSE [error |-> "",
          cable |-> [cbl EXCEPT !.created = Group(c, m, 2),
                                !.released = Group(c, m, 3),
                                !.origin = Group(c, m, 5),
                                !.classification = UpperStr(Group(c, m, 4)),
                                !.media_uris = meta_media(c, start_idx, end_idx, cbl.media_uris)]]

\* parse_meta after the two rindex calls; a rindex that finds nothing raises
meta_search(c, cbl, start_idx, end_idx) ==
    IF end_idx = -1 \/ start_idx = -1 THEN [error |-> SubstringNotFound, cable |-> cbl]
    ELSE meta_assign(c, cbl, start_idx, end_idx, Search(_META_PATTERN, c, start_idx, end_idx))

\* start_idx = file_content.rindex("<table class='cable'>", 0, end_idx)
meta_start(c, cbl, end_idx) ==
    meta_search(c, cbl,
                IF end_idx = -1 THEN -1 ELSE RFind(c, <<"<","t","a","b","l","e"," ","c","l","a","s","s","=","'","c","a","b","l","e","'",">">>, 0, end_idx),
                end_idx)

\* parse_meta(file_content, cable): the error raised ("" when none) and the
\* cable after the call
parse_meta(c, cbl) == meta_start(c, cbl, RFind(c, <<"<","/","t","a","b","l","e",">">>, 0, Len(c)))

\* the call returns or raises r.error, and leaves the cable r.cable
Returns(r) == error' = r.error /\ cable' = r.cable

(* The driver: a page is made of an optional table start, a first linked  *)
(* cell with an identifier, more linked cells, an optional list of media  *)
(* links and an optional table end; parse_meta is called for a cable with *)
(* the page, and once more with a second page.                            *)

MaxCells == 5

MetaIds == {<<"0","9","O","S","L","O","9","9","9">>, <<"0","8","M","A","N","A","M","A","4","9","2">>}
MetaRefs == {<<"0","9","O","S","L","O","9","9","9">>, <<"0","8","E","C","T","I","O","N","0","1","O","F","0","2","M","A","N","A","M","A","4","9","2">>}
Cell(x) == <<"<","t","d",">","<","a"," ","h",">">> \o x \o <<"<","/","a",">","\n">>
Page(start, ref, n, media, end) ==
    (IF start THEN <<"<","t","a","b","l","e"," ","c","l","a","s","s","=","'","c","a","b","l","e","'",">","\n">> ELSE <<>>)
    \o Cell(ref) \o Concat([k \in 1..n |-> Cell(<<LowerCase[k]>>)])
    \o (IF media THEN <<"A","p","p","e","a","r","s"," ","i","n"," ","t","h","e","s","e"," ","<","a"," ","h","r","e","f","=","'","u","'",">","m","<","/","a",">">> ELSE <<>>)
    \o (IF end THEN <<"<","/","t","a","b","l","e",">">> ELSE <<>>)
Pages == {Page(start, ref, n, media, end) :
            start \in BOOLEAN, ref \in MetaRefs, n \in 0..MaxCells, media \in BOOLEAN, end \in BOOLEAN}
\* the second page: a table of another cable, or no table
Pages2 == {Page(TRUE, <<"0","9","O","S","L","O","9","9","9">>, 4, FALSE, TRUE), Page(FALSE, <<"0","9","O","S","L","O","9","9","9">>, 4, FALSE, FALSE)}

InitMeta ==
    /\ pc = "start"
    /\ reference_id \in MetaIds
    /\ content \in Pages
    /\ content2 \in Pages2
    /\ cable = NewCable(reference_id)
    /\ year = <<>>
    /\ out = <<>>
    /\ out2 = <<>>
    /\ error = ""
    /\ Imported

\* parse_meta(content, cable)
ParseMeta ==
    /\ pc = "start"
    /\ Returns(parse_meta(content, cable))
    /\ pc' = "done"
    /\ UNCHANGED <<reference_id, content, content2, year, out, out2>>
    /\ UNCHANGED rest

\* parse_meta(content2, cable), for the same cable
ParseMetaAgain ==
    /\ pc = "done"
    /\ Returns(parse_meta(content2, cable))
    /\ pc' = "again"
    /\ UNCHANGED <<reference_id, content, content2, year, out, out2>>
    /\ UNCHANGED rest

NextMeta == ParseMeta \/ ParseMetaAgain

SpecMeta == InitMeta /\ [][NextMeta]_vars

\* the page the last call was given
LastPage == IF pc = "again" THEN content2 ELSE content

\* C9: once the table is parsed, the call raises the identifier error exactly
\* when the identifier of the table differs from cable.reference_id and so
\* does MALFORMED_CABLE_IDS.get of it; and a call that raises, for whatever
\* reason, leaves the cable as it was.
C9_RaisesOnMismatchOnly ==
    /\ [](pc # "start" =>
            LET m == meta_match(LastPage)
                ref == Group(LastPage, m, 1)
            IN  /\ m # NoMatch =>
                     (error # "" <=> /\ ref # cable.reference_id
                                     /\ malformed_get(ref) # cable.reference_id)
                /\ error = IdMismatch => m # NoMatch)
    /\ [][error' # "" => cable' = cable]_vars

\* C9 witness: the first call filled the cable, the second call raised the
\* identifier error for a table of another cable, and the cable still holds
\* what the first call wrote.
C9_Witness ==
    /\ pc = "again"
    /\ error = IdMismatch
    /\ cable.created # NoneText
    /\ cable.media_uris # <<>>

\* the number of linked cells in the last table region of the page
LinkedCells(c) ==
    LET end_idx == RFind(c, <<"<","/","t","a","b","l","e",">">>, 0, Len(c))
        start_idx == IF end_idx = -1 THEN -1 ELSE RFind(c, <<"<","t","a","b","l","e"," ","c","l","a","s","s","=","'","c","a","b","l","e","'",">">>, 0, end_idx)
        region == Slice(c, start_idx, end_idx)
    IN  IF start_idx = -1 THEN -1
        ELSE Len(FindAll(Compile(Lit(<<"<","t","d",">","<","a">>), 0, FALSE, FALSE, FALSE), region, 0))

\* C10: without a bounded table region the call fails with the
\* table-not-found error, and with a region that holds a number of linked
\* cells other than five it fails with the other, malformed-table error.
C10_TwoFailures ==
    pc = "done" =>
      LET cells == LinkedCells(content)
      IN  /\ cells = -1 => error \in {TableNotFound, SubstringNotFound}
          /\ (cells # -1 /\ cells # 5) => error = UnexpectedResult

-----------------------------------------------------------------------------
(* parse_subject *)

\* ur'(?<!\()(?:S?UBJ(?:ECT)?(?:(?::\s*)|(?::?\s+))(?!LINE[/]*))(.+?)(?:\Z|(C O N)
\* |(SENSI?TIVE BUT)|([ ]+REFS?:[ ]+)|(\n[ ]*\n|[\s]*[\n][\s]*[\s]*REFS?:?\s)|(REF:\s)
\* |(REF\(S\):?)|(\s*Classified\s)|([1-9]\.?[ ]+Classified By)|([1-9]\.?[ ]*\([^\)]+\))
\* |(1\.?[ ]Summary)|([A-Z]+\s+[0-9]+\s+[0-9]+\.?[0-9]*\s+OF)|(\-\-\-\-\-*\s+)|(Friday)
\* |(PAGE [0-9]+)|(This is a?n Action Req))', re.DOTALL|re.IGNORECASE|re.UNICODE
_SUBJECT_PATTERN ==
    Compile(Cat(<<NotBehind("("),
                  Opt(Lit(<<"S">>)), Lit(<<"U","B","J">>), Opt(Lit(<<"E","C","T">>)),
                  Alt(<<Cat(<<Lit(<<":">>), Star(In(Space))>>),
                        Cat(<<Opt(Lit(<<":">>)), Plus(In(Space))>>)>>),
                  NotAhead(Cat(<<Lit(<<"L","I","N","E">>), Star(Lit(<<"/">>))>>)),
                  Grp(1, LazyPlus(Dot)),
                  Alt(<<Eos,
                        Grp(2, Lit(<<"C"," ","O"," ","N">>)),
                        Grp(3, Cat(<<Lit(<<"S","E","N","S">>), Opt(Lit(<<"I">>)), Lit(<<"T","I","V","E"," ","B","U","T">>)>>)),
                        Grp(4, Cat(<<Plus(In({" "})), Lit(<<"R","E","F">>), Opt(Lit(<<"S">>)), Lit(<<":">>), Plus(In({" "}))>>)),
                        Grp(5, Alt(<<Cat(<<Lit(<<"\n">>), Star(In({" "})), Lit(<<"\n">>)>>),
                                     Cat(<<Star(In(Space)), In({"\n"}), Star(In(Space)), Star(In(Space)),
                                           Lit(<<"R","E","F">>), Opt(Lit(<<"S">>)), Opt(Lit(<<":">>)), In(Space)>>)>>)),
                        Grp(6, Cat(<<Lit(<<"R","E","F",":">>), In(Space)>>)),
                        Grp(7, Cat(<<Lit(<<"R","E","F","(","S",")">>), Opt(Lit(<<":">>))>>)),
                        Grp(8, Cat(<<Star(In(Space)), Lit(<<"C","l","a","s","s","i","f","i","e","d">>), In(Space)>>)),
                        Grp(9, Cat(<<In(Digits \ {"0"}), Opt(Lit(<<".">>)), Plus(In({" "})), Lit(<<"C","l","a","s","s","i","f","i","e","d"," ","B","y">>)>>)),
                        Grp(10, Cat(<<In(Digits \ {"0"}), Opt(Lit(<<".">>)), Star(In({" "})),
                                      Lit(<<"(">>), Plus(NotIn({")"})), Lit(<<")">>)>>)),
                        Grp(11, Cat(<<Lit(<<"1">>), Opt(Lit(<<".">>)), In({" "}), Lit(<<"S","u","m","m","a","r","y">>)>>)),
                        Grp(12, Cat(<<Plus(In(UpperSet)), Plus(In(Space)), Plus(In(Digits)), Plus(In(Space)),
                                      Plus(In(Digits)), Opt(Lit(<<".">>)), Star(In(Digits)), Plus(In(Space)),
                                      Lit(<<"O","F">>)>>)),
                        Grp(13, Cat(<<Lit(<<"-","-","-","-">>), Star(Lit(<<"-">>)), Plus(In(Space))>>)),
                        Grp(14, Lit(<<"F","r","i","d","a","y">>)),
                        Grp(15, Cat(<<Lit(<<"P","A","G","E"," ">>), Plus(In(Digits))>>)),
                        Grp(16, Cat(<<Lit(<<"T","h","i","s"," ","i","s"," ">>), Opt(Lit(<<"a">>)), Lit(<<"n"," ","A","c","t","i","o","n"," ","R","e","q">>)>>))>>)>>),
            16, TRUE, TRUE, FALSE)

\* r'1\.?[ ]*\([^\)]+\)'
_SUBJECT_MAX_PATTERN ==
    Compile(Cat(<<Lit(<<"1">>), Opt(Lit(<<".">>)), Star(In({" "})),
                  Lit(<<"(">>), Plus(NotIn({")"})), Lit(<<")">>)>>),
            0, FALSE, FALSE, FALSE)

\* ur'[\r\n]+', re.UNICODE|re.MULTILINE
_NL_PATTERN == Compile(Plus(In({"\r", "\n"})), 0, FALSE, FALSE, TRUE)

\* ur'[ ]{2,}', re.UNICODE
_WS_PATTERN == Compile(Rep(In({" "}), 2, -1, TRUE), 0, FALSE, FALSE, FALSE)

\* r'^\([^\)]+\)[ ]+| \([A-Z]+\)$'
_BRACES_PATTERN ==
    Compile(Alt(<<Cat(<<Bol, Lit(<<"(">>), Plus(NotIn({")"})), Lit(<<")">>), Plus(In({" "}))>>),
                  Cat(<<Lit(<<" ","(">>), Plus(In(UpperSet)), Lit(<<")">>), Eol>>)>>),
            0, FALSE, FALSE, FALSE)

\* r'&#([0-9]+);'
_HTML_ENTITIES_PATTERN ==
    Compile(Cat(<<Lit(<<"&","#">>), Grp(1, Plus(In(Digits))), Lit(<<";">>)>>), 1, FALSE, FALSE, FALSE)

\* _CABLE_SUBJECT_FIXES, the dict read from subjects.txt (identifier: subject),
\* a file that is not part of the sources at hand: two entries of its shape,
\* one of them with a classification marker in front
_CABLE_SUBJECT_FIXES == <<
    [id |-> <<"0","9","O","S","L","O","1","4","6">>, subject |-> <<"(","C",")"," ","N","O","R","W","A","Y",":"," ","A"," ","K","N","O","W","N"," ","S","U","B","J","E","C","T">>],
    [id |-> <<"0","8","R","O","M","E","4","5","1">>, subject |-> <<"I","T","A","L","Y",":"," ","A","N","O","T","H","E","R"," ","S","U","B","J","E","C","T"," ","(","S","B","U",")">>]>>

\* s.strip()
Strip(s) ==
    IF \A k \in 1..Len(s) : s[k] \in Space THEN <<>>
    ELSE SubSeq(s, Least({k \in 1..Len(s) : s[k] \notin Space}),
                   Most({k \in 1..Len(s) : s[k] \notin Space}))

\* int(t) for a text of digits
DigitChars == <<"0","1","2","3","4","5","6","7","8","9">>
RECURSIVE IntOf(_)
IntOf(t) ==
    IF t = <<>> THEN 0
    ELSE 10 * IntOf(SubSeq(t, 1, Len(t) - 1))
         + (CHOOSE d \in 0..9 : DigitChars[d + 1] = t[Len(t)])

\* unichr(n): the character of code point n, a ValueError when n is past the
\* last code point (0x10FFFF).  Of the characters, the model names those its
\* texts use; "U+" stands for any other character.
unichr(n) ==
    IF n >= 1114112 THEN [error |-> "ValueError", ch |-> ""]
    ELSE [error |-> "",
          ch |-> CASE n = 38 -> "&" [] n = 65 -> "A" [] n = 8217 -> "U+2019" [] OTHER -> "U+"]

\* a returned value, and a raised error
Value(v) == [error |-> "", value |-> v]
Raised(e) == [error |-> e, value |-> <<>>]

RECURSIVE subject_entities(_, _)

\* left, then the result r of the substitution in the text after it
subject_joined(left, r) == IF r.error # "" THEN r ELSE Value(left \o r.value)

\* the text from pos up to the match m, the character u of to_unicodechar(m),
\* and the substitution in the text after m
subject_decoded(s, pos, m, u) ==
    IF u.error # "" THEN Raised(u.error)
    ELSE subject_joined(Slice(s, pos, m.start) \o <<u.ch>>, subject_entities(s, m.end))

\* to_unicodechar(match): unichr(int(match.group(1)))
subject_entity(s, pos, m) ==
    IF m = NoMatch THEN Value(Slice(s, pos, Len(s)))
    ELSE subject_decoded(s, pos, m, unichr(IntOf(Group(s, m, 1))))

\* _HTML_ENTITIES_PATTERN.sub(to_unicodechar, res), from offset pos on
subject_entities(s, pos) ==
    subject_entity(s, pos, Search(_HTML_ENTITIES_PATTERN, s, pos, Len(s)))

\* if clean: res = _BRACES_PATTERN.sub(u'', res)
subject_clean(r, cl) ==
    IF r.error = "" /\ cl THEN Value(Sub(_BRACES_PATTERN, <<>>, r.value, 0)) ELSE r

\* res = m.group(1).strip(), then the substitutions of line breaks and blanks
subject_spaces(res) == Sub(_WS_PATTERN, <<" ">>, Sub(_NL_PATTERN, <<" ">>, Strip(res), 0), 0)

\* the subject of a cable whose text has a match m of _SUBJECT_PATTERN
subject_found(c, m, cl) ==
    subject_clean(subject_entities(subject_spaces(Group(c, m, 1)), 0), cl)

\* subject = _CABLE_SUBJECT_FIXES.get(reference_id, u'')
subject_get(id) ==
    IF HasKey(_CABLE_SUBJECT_FIXES, id) THEN Entry(_CABLE_SUBJECT_FIXES, id).subject ELSE <<>>

\* no subject found: u'' or the subject of _CABLE_SUBJECT_FIXES
subject_fixed(id, cl, fix) ==
    IF ~fix THEN Value(<<>>)
    ELSE IF subject_get(id) # <<>> /\ cl
         THEN Value(Sub(_BRACES_PATTERN, <<>>, subject_get(id), 0))
         ELSE Value(subject_get(id))

\* m = _SUBJECT_MAX_PATTERN.search(content); max_idx = m and m.start() or _MAX_HEADER_IDX
subject_max_idx(c) == StartOr(Search(_SUBJECT_MAX_PATTERN, c, 0, Len(c)), _MAX_HEADER_IDX)

\* m = _SUBJECT_PATTERN.search(content, 0, max_idx)
subject_match(c) == Search(_SUBJECT_PATTERN, c, 0, subject_max_idx(c))

subject_of(c, id, cl, fix, m) ==
    IF m = NoMatch THEN subject_fixed(id, cl, fix) ELSE subject_found(c, m, cl)

parse_subject(c, id, cl, fix) == subject_of(c, id, cl, fix, subject_match(c))

(* The driver: one call of parse_subject. *)

MaxSubjectPieces == 3

SubjectPieces == <<<<"S","U","B","J","E","C","T",":"," ">>, <<"(","C",")"," ","A"," "," ","B">>, <<"&","#","3","8",";">>, <<"&","#","1","1","1","4","1","1","2",";">>, <<"\n","R","E","F",":"," ">>, <<"(","S","U","B","J"," ","L","I","N","E">>>>

SubjectIds == {<<"0","9","O","S","L","O","1","4","6">>, <<"0","8","R","O","M","E","4","5","1">>, <<"0","9","O","S","L","O","9","9","9">>}

InitSubject ==
    /\ pc = "start"
    /\ reference_id \in SubjectIds
    /\ content \in TextsOf(SubjectPieces, MaxSubjectPieces)
    /\ content2 = <<>>
    /\ year = <<>>
    /\ out = <<>>
    /\ out2 = <<>>
    /\ cable = <<>>
    /\ error = ""
    /\ clean \in BOOLEAN
    /\ fix_subject \in BOOLEAN
    /\ log = <<>>
    /\ globals = [_NAME2ROUTE |-> NoneDict, _CABLE_FIXES |-> _CABLE_FIXES]
    /\ frames = <<>>

\* the value a call returns or the error it raises
Result(r) == out' = r.value /\ error' = r.error

\* out = parse_subject(content, reference_id, clean, fix_subject)
ParseSubject ==
    /\ pc = "start"
    /\ Result(parse_subject(content, reference_id, clean, fix_subject))
    /\ pc' = "done"
    /\ UNCHANGED <<reference_id, content, content2, year, out2, cable>>
    /\ UNCHANGED rest

NextSubject == ParseSubject

SpecSubject == InitSubject /\ [][NextSubject]_vars

\* C11: parse_subject never raises; when no subject marker is found inside
\* the search window it returns the empty string if fix_subject is false,
\* and otherwise the _CABLE_SUBJECT_FIXES entry of the identifier (without its
\* classification marker when clean is true), or the empty string when the
\* identifier has no entry.
C11_NeverRaises ==
    pc = "done" =>
        /\ error = ""
        /\ subject_match(content) = NoMatch =>
             out = IF ~fix_subject \/ ~HasKey(_CABLE_SUBJECT_FIXES, reference_id) THEN <<>>
                   ELSE IF clean
                        THEN Sub(_BRACES_PATTERN, <<>>, Entry(_CABLE_SUBJECT_FIXES, reference_id).subject, 0)
                        ELSE Entry(_CABLE_SUBJECT_FIXES, reference_id).subject

-----------------------------------------------------------------------------
(* The route table: _NAME2ROUTE, _ADDITIONAL_ROUTES, _route_for_name *)

\* routes.txt, the file _route_for_name reads (route, blanks, name on a line;
\* lines that start with # are skipped).  The file is not part of the sources
\* at hand: four lines of its shape stand for it, the last one for a name
\* that _ADDITIONAL_ROUTES holds as well.
ROUTES_TXT == <<<<"#"," ","r","o","u","t","e"," ","n","a","m","e","\n">>, <<"R","U","E","H","N","Y"," ","A","M","E","M","B","A","S","S","Y"," ","O","S","L","O","\n">>, <<"R","U","E","H","M","O","\t","A","M","E","M","B","A","S","S","Y"," ","M","O","S","C","O","W","\n">>,
                <<"R","U","E","H","L","A"," ","A","M","C","O","N","S","U","L"," ","L","A","G","O","S","\n">>>>

_ADDITIONAL_ROUTES == <<
    [id |-> <<"U","S","M","I","S","S","I","O","N"," ","U","S","N","A","T","O">>, route |-> <<"R","U","C","N","D","T">>],
    [id |-> <<"U","S","M","I","S","S","I","O","N"," ","U","S","U","N"," ","N","E","W"," ","Y","O","R","K">>, route |-> <<"R","U","C","N","D","T">>],
    [id |-> <<"S","E","C","S","T","A","T","E"," ","W","A","S","H","D","C">>, route |-> <<"R","U","E","H","C">>],
    [id |-> <<"A","M","E","M","B","A","S","S","Y"," ","G","U","A","T","E","M","A","L","A">>, route |-> <<"R","U","E","H","G","T">>],
    [id |-> <<"A","M","C","O","N","S","U","L"," ","L","A","G","O","S">>, route |-> <<"R","U","E","H","O","S">>],
    [id |-> <<"A","M","C","O","N","S","U","L"," ","M","E","L","B","O","U","R","N","E">>, route |-> <<"R","U","E","H","B","N">>],
    [id |-> <<"A","M","E","M","B","A","S","S","Y"," ","P","A","N","A","M","A">>, route |-> <<"R","U","E","H","Z","P">>],
    [id |-> <<"A","M","E","M","B","A","S","S","Y"," ","M","E","X","I","C","O">>, route |-> <<"R","U","E","H","M","E">>],
    [id |-> <<"A","M","E","M","B","A","S","S","Y"," ","V","A","T","I","C","A","N">>, route |-> <<"R","U","E","H","R","O","V">>],
    [id |-> <<"A","M","E","M","B","A","S","S","Y"," ","A","L","M","A","T","Y">>, route |-> <<"R","U","E","H","T","A">>],
    [id |-> <<"A","M","E","M","B","A","S","S","Y"," ","Q","U","I","T","O">>, route |-> <<"R","U","E","H","Q","T">>],
    [id |-> <<"A","M","C","O","N","S","U","L"," ","J","O","H","A","N","N","E","S","B","U","R","G">>, route |-> <<"R","U","E","H","J","O">>],
    [id |-> <<"X","M","T"," ","A","M","C","O","N","S","U","L"," ","J","O","H","A","N","N","E","S","B","U","R","G">>, route |-> <<"R","U","E","H","J","O">>],
    [id |-> <<"X","M","T"," ","A","M","C","O","N","S","U","L"," ","S","T","R","A","S","B","O","U","R","G">>, route |-> <<"R","U","E","H","S","R">>],
    [id |-> <<"H","Q"," ","U","S","A","F","R","I","C","O","M"," ","S","T","U","T","T","G","A","R","T"," ","G","E">>, route |-> <<"R","H","W","S","A","F","C">>],
    [id |-> <<"D","E","P","T"," ","O","F"," ","J","U","S","T","I","C","E"," ","W","A","S","H","I","N","G","T","O","N"," ","D","C">>, route |-> <<"R","U","E","A","W","J","A">>],
    [id |-> <<"D","E","P","A","R","T","M","E","N","T"," ","O","F"," ","J","U","S","T","I","C","E"," ","W","A","S","H","I","N","G","T","O","N"," ","D","C">>, route |-> <<"R","U","E","A","W","J","A">>],
    [id |-> <<"N","A","T","I","O","N","A","L"," ","S","E","C","U","R","I","T","Y"," ","C","O","U","N","C","I","L"," ","W","A","S","H","I","N","G","T","O","N"," ","D","C">>, route |-> <<"R","H","E","H","N","S","C">>],
    [id |-> <<"N","S","C"," ","W","A","S","H","I","N","G","T","O","N"," ","D","C">>, route |-> <<"R","H","E","H","N","S","C">>],
    [id |-> <<"A","M","E","M","B","A","S","S","Y"," ","R","I","O"," ","D","E"," ","J","A","N","E","I","R","O">>, route |-> <<"R","U","E","H","R","I">>],
    [id |-> <<"D","I","A"," ","W","A","S","H","I","N","G","T","O","N"," ","D","C">>, route |-> <<"R","H","E","F","J","M","A">>],
    [id |-> <<"H","Q"," ","U","S","C","E","N","T","C","O","M"," ","M","A","C","D","I","L","L"," ","A","F","B"," ","F","L">>, route |-> <<"R","U","M","I","C","E","A">>],
    [id |-> <<"C","D","R"," ","U","S","C","E","N","T","C","O","M"," ","M","A","C","D","I","L","L"," ","A","F","B"," ","F","L">>, route |-> <<"R","U","M","I","C","E","A">>],
    [id |-> <<"C","O","M","S","O","C","C","E","N","T"," ","M","A","C","D","I","L","L"," ","A","F","B"," ","F","L">>, route |-> <<"R","H","M","F","I","U","U">>],
    [id |-> <<"H","Q"," ","U","S","S","O","C","O","M"," ","M","A","C","D","I","L","L"," ","A","F","B"," ","F","L">>, route |-> <<"R","H","M","F","I","U","U">>],
    [id |-> <<"U","S","C","I","N","C","C","E","N","T"," ","M","A","C","D","I","L","L"," ","A","F","B"," ","F","L">>, route |-> <<"R","U","M","I","C","E","A">>],
    [id |-> <<"U","S","E","U"," ","B","R","U","S","S","E","L","S">>, route |-> <<"R","U","E","H","N","O">>],
    [id |-> <<"S","E","C","D","E","F">>, route |-> <<"R","U","E","K","J","C","S">>],
    [id |-> <<"S","E","C","D","E","F"," ","W","A","S","H","I","N","G","T","O","N"," ","D","C">>, route |-> <<"R","U","E","K","J","C","S">>],
    [id |-> <<"D","E","P","T"," ","O","F"," ","H","O","M","E","L","A","N","D"," ","S","E","C","U","R","I","T","Y"," ","W","A","S","H","I","N","G","T","O","N"," ","D","C">>, route |-> <<"R","H","E","F","H","L","C">>],
    [id |-> <<"H","O","M","E","L","A","N","D"," ","S","E","C","U","R","I","T","Y"," ","C","E","N","T","E","R"," ","W","A","S","H","I","N","G","T","O","N"," ","D","C">>, route |-> <<"R","H","E","F","H","L","C">>],
    [id |-> <<"U","S","M","I","S","S","I","O","N"," ","U","N","V","I","E"," ","V","I","E","N","N","A">>, route |-> <<"R","U","E","H","U","N","V">>],
    [id |-> <<"T","H","E"," ","W","H","I","T","E"," ","H","O","U","S","E"," ","W","A","S","H","I","N","G","T","O","N"," ","D","C">>, route |-> <<"R","H","E","H","A","A","A">>],
    [id |-> <<"W","H","I","T","E"," ","H","O","U","S","E"," ","W","A","S","H","I","N","G","T","O","N"," ","D","C">>, route |-> <<"R","H","E","H","A","A","A">>],
    [id |-> <<"C","J","C","S"," ","W","A","S","H","I","N","G","T","O","N"," ","D","C">>, route |-> <<"R","U","E","K","J","C","S">>],
    [id |-> <<"C","O","M","U","S","K","O","R","E","A"," ","J">>, route |-> <<"R","U","A","C","A","A","A">>],
    [id |-> <<"C","O","M","U","S","F","K"," ","S","E","O","U","L"," ","K","O","R">>, route |-> <<"R","U","A","C","A","A","A">>],
    [id |-> <<"C","O","M","U","S","K","O","R","E","A"," ","S","C","J","S"," ","S","E","O","U","L"," ","K","O","R">>, route |-> <<"R","U","A","C","A","A","A">>],
    [id |-> <<"E","U","R","O","P","E","A","N"," ","P","O","L","I","T","I","C","A","L"," ","C","O","L","L","E","C","T","I","V","E">>, route |-> <<"R","U","E","H","Z","L">>],
    [id |-> <<"E","U"," ","M","E","M","B","E","R"," ","S","T","A","T","E","S"," ","C","O","L","L","E","C","T","I","V","E">>, route |-> <<"R","U","C","N","M","E","M">>],
    [id |-> <<"G","U","L","F"," ","C","O","O","P","E","R","A","T","I","O","N"," ","C","O","U","N","C","I","L"," ","C","O","L","L","E","C","T","I","V","E">>, route |-> <<"R","U","E","H","Z","M">>],
    [id |-> <<"M","E","R","C","O","S","U","R"," ","C","O","L","L","E","C","T","I","V","E">>, route |-> <<"R","U","C","N","M","E","R">>],
    [id |-> <<"I","R","A","N"," ","C","O","L","L","E","C","T","I","V","E">>, route |-> <<"R","U","C","N","I","R","A">>],
    [id |-> <<"W","E","S","T","E","R","N"," ","H","E","M","I","S","P","H","E","R","I","C"," ","A","F","F","A","I","R","S"," ","D","I","P","L"," ","P","O","S","T","S">>, route |-> <<"R","U","E","H","W","H">>],
    [id |-> <<"M","O","S","C","O","W"," ","P","O","L","I","T","I","C","A","L"," ","C","O","L","L","E","C","T","I","V","E">>, route |-> <<"R","U","E","H","X","D">>],
    [id |-> <<"I","R","A","Q"," ","C","O","L","L","E","C","T","I","V","E">>, route |-> <<"R","U","C","N","R","A","Q">>],
    [id |-> <<"E","C","O","W","A","S"," ","C","O","L","L","E","C","T","I","V","E">>, route |-> <<"R","U","E","H","Z","K">>],
    [id |-> <<"A","R","A","B"," ","I","S","R","A","E","L","I"," ","C","O","L","L","E","C","T","I","V","E">>, route |-> <<"R","U","E","H","X","K">>],
    [id |-> <<"A","R","A","B"," ","L","E","A","G","U","E"," ","C","O","L","L","E","C","T","I","V","E">>, route |-> <<"R","U","E","H","E","E">>],
    [id |-> <<"S","O","U","T","H","E","R","N"," ","A","F","R","I","C","A","N"," ","D","E","V","E","L","O","P","M","E","N","T"," ","C","O","M","M","U","N","I","T","Y">>, route |-> <<"R","U","C","N","S","A","D">>],
    [id |-> <<"S","O","U","T","H","E","R","N"," ","A","F"," ","D","E","V","E","L","O","P","M","E","N","T"," ","C","O","M","M","U","N","I","T","Y"," ","C","O","L","L","E","C","T","I","V","E">>, route |-> <<"R","U","C","N","S","A","D">>],
    [id |-> <<"D","A","R","F","U","R"," ","C","O","L","L","E","C","T","I","V","E">>, route |-> <<"R","U","C","N","F","U","R">>],
    [id |-> <<"A","F","R","I","C","A","N"," ","U","N","I","O","N"," ","C","O","L","L","E","C","T","I","V","E">>, route |-> <<"R","U","E","H","Z","O">>],
    [id |-> <<"A","L","L"," ","U","S"," ","C","O","N","S","U","L","A","T","E","S"," ","I","N"," ","M","E","X","I","C","O"," ","C","O","L","L","E","C","T","I","V","E">>, route |-> <<"R","U","E","H","X","C">>],
    [id |-> <<"O","P","E","C"," ","C","O","L","L","E","C","T","I","V","E">>, route |-> <<"R","U","E","H","H","H">>],
    [id |-> <<"A","L","L"," ","N","A","T","O"," ","P","O","S","T"," ","C","O","L","L","E","C","T","I","V","E">>, route |-> <<"R","U","E","H","X","P">>],
    [id |-> <<"E","N","V","I","R","O","N","M","E","N","T"," ","S","C","I","E","N","C","E"," ","A","N","D"," ","T","E","C","H","N","O","L","O","G","Y"," ","C","O","L","L","E","C","T","I","V","E">>, route |-> <<"R","U","E","H","Z","N">>],
    [id |-> <<"A","F","G","H","A","N","I","S","T","A","N"," ","C","O","L","L","E","C","T","I","V","E">>, route |-> <<"R","U","C","N","A","F","G">>],
    [id |-> <<"W","H","A"," ","C","E","N","T","R","A","L"," ","A","M","E","R","I","C","A","N"," ","C","O","L","L","E","C","T","I","V","E">>, route |-> <<"R","U","E","H","Z","A">>],
    [id |-> <<"U","N"," ","S","E","C","U","R","I","T","Y"," ","C","O","U","N","C","I","L"," ","C","O","L","L","E","C","T","I","V","E">>, route |-> <<"R","U","E","H","G","G">>],
    [id |-> <<"I","G","A","D"," ","C","O","L","L","E","C","T","I","V","E">>, route |-> <<"R","U","C","N","I","A","D">>],
    [id |-> <<"D","E","A"," ","H","Q","S"," ","W","A","S","H","I","N","G","T","O","N"," ","D","C">>, route |-> <<"R","U","E","A","B","N","D">>],
    [id |-> <<"O","S","D"," ","W","A","S","H","I","N","G","T","O","N"," ","D","C">>, route |-> <<"R","U","E","K","J","C","S">>],
    [id |-> <<"H","A","I","T","I"," ","C","O","L","L","E","C","T","I","V","E">>, route |-> <<"R","U","E","H","Z","H">>],
    [id |-> <<"N","C","T","C"," ","W","A","S","H","I","N","G","T","O","N"," ","D","C">>, route |-> <<"R","U","E","I","L","B">>],
    [id |-> <<"S","O","M","A","L","I","A"," ","C","O","L","L","E","C","T","I","V","E">>, route |-> <<"R","U","C","N","S","O","M">>],
    [id |-> <<"C","D","R"," ","U","S","P","A","C","O","M"," ","H","O","N","O","L","U","L","U"," ","H","I">>, route |-> <<"R","H","H","M","U","N","A">>],
    [id |-> <<"H","Q"," ","U","S","A","F","R","I","C","O","M"," ","S","T","U","T","T","G","A","R","T"," ","G","E">>, route |-> <<"R","U","E","W","M","F","D">>],
    [id |-> <<"C","D","R"," ","U","S","A","F","R","I","C","O","M"," ","S","T","U","T","T","G","A","R","T"," ","G","E">>, route |-> <<"R","U","E","W","M","F","D">>],
    [id |-> <<"E","U","C","O","M"," ","P","O","L","A","D"," ","V","A","I","H","I","N","G","E","N"," ","G","E">>, route |-> <<"R","H","M","C","S","U","U">>],
    [id |-> <<"H","Q"," ","U","S","E","U","C","O","M"," ","V","A","I","H","I","N","G","E","N"," ","G","E">>, route |-> <<"R","H","M","C","S","U","U">>],
    [id |-> <<"C","D","R"," ","U","S","E","U","C","O","M"," ","V","A","I","H","I","N","G","E","N"," ","G","E">>, route |-> <<"R","H","M","C","S","U","U">>],
    [id |-> <<"H","Q"," ","U","S","S","O","U","T","H","C","O","M"," ","M","I","A","M","I"," ","F","L">>, route |-> <<"R","U","M","I","A","A","A">>],
    [id |-> <<"C","D","R"," ","U","S","S","O","U","T","H","C","O","M"," ","M","I","A","M","I"," ","F","L">>, route |-> <<"R","H","M","F","I","U","U">>],
    [id |-> <<"R","W","A","N","D","A"," ","C","O","L","L","E","C","T","I","V","E">>, route |-> <<"R","U","E","H","X","R">>],
    [id |-> <<"C","O","M","N","A","V","B","A","S","E"," ","G","U","A","N","T","A","N","A","M","O"," ","B","A","Y"," ","C","U">>, route |-> <<"R","U","C","O","G","C","A">>],
    [id |-> <<"N","A","V","I","N","T","E","L","O","F","C"," ","G","U","A","N","T","A","N","A","M","O"," ","B","A","Y"," ","C","U">>, route |-> <<"R","U","C","O","G","C","A">>],
    [id |-> <<"M","A","G","H","R","E","B"," ","C","O","L","L","E","C","T","I","V","E">>, route |-> <<"R","U","C","N","M","G","H">>]>>

\* re.compile('^(R[A-Z]+)[ \t]+(.+)$')
route_pattern ==
    Compile(Cat(<<Bol, Grp(1, Cat(<<Lit(<<"R">>), Plus(In(UpperSet))>>)), Plus(In({" ", "\t"})),
                  Grp(2, Plus(Dot)), Eol>>),
            2, FALSE, FALSE, FALSE)

\* s.replace(old, new) for a text old that is not empty, from offset i on
RECURSIVE ReplaceFrom(_, _, _, _)
ReplaceFrom(s, old, new, i) ==
    IF i + Len(old) > Len(s) THEN Slice(s, i, Len(s))
    ELSE IF StartsAt(s, old, i) THEN new \o ReplaceFrom(s, old, new, i + Len(old))
    ELSE <<s[i + 1]>> \o ReplaceFrom(s, old, new, i + 1)

Replace(s, old, new) == ReplaceFrom(s, old, new, 0)

\* a value that counts as false: u'', or None
Falsy(x) == x = <<>> \/ x = NoneText

\* d[m.group(2)] = m.group(1), for the match m of route_pattern in line l
route_set(d, l, m) == Append(d, [id |-> Group(l, m, 2), route |-> Group(l, m, 1)])

\* the body of "for l in f": d after line l
route_line(d, l) ==
    IF StartsAt(l, <<"#">>, 0) THEN d
    ELSE route_set(d, l, MatchAt(route_pattern, l, 0, Len(l)))

\* mutant of route_updated: the entries of _ADDITIONAL_ROUTES are left out
route_updated_Skipped(d) == d

\* NAME2ROUTE.update(_ADDITIONAL_ROUTES)
route_updated(d) == d \o _ADDITIONAL_ROUTES

\* "for l in f": d after the lines k, k + 1, ... of the file
RECURSIVE route_read(_, _, _)
route_read(f, k, d) == IF k > Len(f) THEN d ELSE route_read(f, k + 1, route_line(d, f[k]))

\* d.get(key): the value of the key, None without it
route_value(d, key) == IF HasKey(d, key) THEN Entry(d, key).route ELSE NoneText

\* mutant of route_retry: the lookup is made once, under the name as given
route_retry_Never(d, name, res) == res

\* res, or the value for the name with WASHDC spelled out
route_retry(d, name, res) ==
    IF Falsy(res) /\ EndsWith(name, <<"W","A","S","H","D","C">>)
    THEN route_value(d, Replace(name, <<"W","A","S","H","D","C">>, <<"W","A","S","H","I","N","G","T","O","N"," ","D","C">>))
    ELSE res

\* res = NAME2ROUTE.get(name) and the lines after it
route_get(d, name) == route_retry(d, name, route_value(d, name))

\* "if not NAME2ROUTE": true of None and of an empty dict
route_unset(g) == g.isNone \/ g.d = <<>>

\* mutant of route_table: the first call looks names up before the update
\* with _ADDITIONAL_ROUTES, later calls after it
route_table_Unfinished(g) ==
    IF route_unset(g) THEN route_read(ROUTES_TXT, 1, <<>>) ELSE route_updated(g.d)

\* NAME2ROUTE when the lookup is made, for the value g of the global
route_table(g) ==
    IF route_unset(g) THEN route_updated(route_read(ROUTES_TXT, 1, <<>>)) ELSE g.d

\* a call of _route_for_name that runs alone: its result, and the global after it
route_done(g, d, name) == [res |-> route_get(d, name), g |-> IF route_unset(g) THEN Dict(d) ELSE g]

_route_for_name(g, name) == route_done(g, route_table(g), name)

-----------------------------------------------------------------------------
(* _route_recipient_from_header, parse_recipients, parse_info_recipients *)

_CABLES_WITHOUT_TO == {<<"0","8","M","O","N","T","E","R","R","E","Y","4","6","8">>, <<"0","9","T","I","J","U","A","N","A","1","1","1","6">>, <<"0","8","S","T","A","T","E","1","2","5","6","8","6">>,
                       <<"0","6","W","E","L","L","I","N","G","T","O","N","6","3","3">>, <<"0","6","W","E","L","L","I","N","G","T","O","N","6","5","2">>, <<"0","8","S","T","A","T","E","3","4","3","0","6">>}

\* r'([A-Z]+/)?([A-Z -]{2,})(?:.*$)', re.MULTILINE|re.UNICODE
_REC_PATTERN ==
    Compile(Cat(<<Opt(Grp(1, Cat(<<Plus(In(UpperSet)), Lit(<<"/">>)>>))),
                  Grp(2, Rep(In(UpperSet \cup {" ", "-"}), 2, -1, TRUE)),
                  Star(Dot), Eol>>),
            2, FALSE, FALSE, TRUE)

\* r'(?:\nTO\s+)(?:PAGE [0-9]+ [A-Z]+ [0-9]+ [0-9]+Z)?(.+?)(?=INFO|\Z)', re.DOTALL|re.UNICODE
_TO_PATTERN ==
    Compile(Cat(<<Lit(<<"\n","T","O">>), Plus(In(Space)),
                  Opt(Cat(<<Lit(<<"P","A","G","E"," ">>), Plus(In(Digits)), Lit(<<" ">>), Plus(In(UpperSet)), Lit(<<" ">>),
                            Plus(In(Digits)), Lit(<<" ">>), Plus(In(Digits)), Lit(<<"Z">>)>>)),
                  Grp(1, LazyPlus(Dot)),
                  Ahead(Alt(<<Lit(<<"I","N","F","O">>), Eos>>))>>),
            1, FALSE, TRUE, FALSE)

\* r'(?:\nTO\s+.+?\nINFO\s+)(.+?)(?=\Z)', re.DOTALL|re.UNICODE
_INFO_PATTERN ==
    Compile(Cat(<<Lit(<<"\n","T","O">>), Plus(In(Space)), LazyPlus(Dot), Lit(<<"\n","I","N","F","O">>), Plus(In(Space)),
                  Grp(1, LazyPlus(Dot)), Ahead(Eos)>>),
            1, FALSE, TRUE, FALSE)

\* route, after "if route: route = route.replace('/', '')" and
\* "if route == 'RHMFISS': route = None"
rec_route(route) ==
    IF RemoveChar(route, "/") = <<"R","H","M","F","I","S","S">> THEN NoneText ELSE RemoveChar(route, "/")

\* recipient without PRIORITY, IMMEDIATE and NIACT, without PIORITY for
\* 09BAKU179, stripped
rec_clean(recipient, id) ==
    Strip(IF id = <<"0","9","B","A","K","U","1","7","9">>
          THEN Replace(Replace(Replace(Replace(recipient, <<"P","R","I","O","R","I","T","Y">>, <<>>), <<"I","M","M","E","D","I","A","T","E">>, <<>>),
                               <<"N","I","A","C","T">>, <<>>), <<"P","I","O","R","I","T","Y">>, <<>>)
          ELSE Replace(Replace(Replace(recipient, <<"P","R","I","O","R","I","T","Y">>, <<>>), <<"I","M","M","E","D","I","A","T","E">>, <<>>),
                       <<"N","I","A","C","T">>, <<>>))

\* "if recipient in ('PAGE', 'RHMFISS', 'RHMFIUU'): recipient = None"
rec_noise(recipient) ==
    IF recipient \in {<<"P","A","G","E">>, <<"R","H","M","F","I","S","S">>, <<"R","H","M","F","I","U","U">>} THEN NoneText ELSE recipient

rec_recipient(recipient, id) == rec_noise(rec_clean(recipient, id))

\* mutant of rec_append: the pair goes in front of the list
rec_append_InFront(route, recipient, res) ==
    IF ~Falsy(route) \/ ~Falsy(recipient) THEN <<<<route, recipient>>>> \o res ELSE res

\* "if route or recipient: res.append((route, recipient))"
rec_append(route, recipient, res) ==
    IF ~Falsy(route) \/ ~Falsy(recipient) THEN Append(res, <<route, recipient>>) ELSE res

\* the pair with the route that the call of _route_for_name returned
rec_routed(recipient, acc, call) ==
    [res |-> rec_append(call.res, recipient, acc.res), g |-> call.g]

\* "if not route and recipient: route = _route_for_name(recipient)", and the append
rec_add(route, recipient, acc) ==
    IF Falsy(route) /\ ~Falsy(recipient)
    THEN rec_routed(recipient, acc, _route_for_name(acc.g, recipient))
    ELSE [res |-> rec_append(route, recipient, acc.res), g |-> acc.g]

\* the for loop over the matches ms of _REC_PATTERN, from the k-th on; acc
\* holds res and the value of _NAME2ROUTE
RECURSIVE rec_loop(_, _, _, _, _)
rec_loop(s, ms, k, id, acc) ==
    IF k > Len(ms) THEN acc
    ELSE rec_loop(s, ms, k + 1, id,
                  rec_add(rec_route(Group(s, ms[k], 1)), rec_recipient(Group(s, ms[k], 2), id), acc))

_route_recipient_from_header(header, id, g) ==
    rec_loop(header, FindAll(_REC_PATTERN, header, 0), 1, id, [res |-> <<>>, g |-> g])

\* a record of the logger
Warn(msg) == [level |-> "warn", msg |-> msg]
Debug(msg) == [level |-> "debug", msg |-> msg]

\* mutant of recipients_missing: the warning is logged for every cable
recipients_missing_Always(id, lg) == Append(lg, Warn("No TO header found"))

\* "if reference_id not in _CABLES_WITHOUT_TO: logger.warn(...)"
recipients_missing(id, lg) ==
    IF id \notin _CABLES_WITHOUT_TO THEN Append(lg, Warn("No TO header found")) ELSE lg

\* the result r of _route_recipient_from_header, as the result of its caller
recipients_from(r, lg) == [res |-> r.res, g |-> r.g, log |-> lg]

\* parse_recipients after the search for _TO_PATTERN
recipients_of(header, id, g, lg, m) ==
    IF m = NoMatch THEN [res |-> <<>>, g |-> g, log |-> recipients_missing(id, lg)]
    ELSE recipients_from(_route_recipient_from_header(Group(header, m, 1), id, g), lg)

parse_recipients(header, id, g, lg) ==
    recipients_of(header, id, g, lg, Search(_TO_PATTERN, header, 0, Len(header)))

\* parse_info_recipients after the search for _INFO_PATTERN (the lines after
\* its second return are never run)
info_recipients_of(header, id, g, lg, m) ==
    IF m = NoMatch THEN [res |-> <<>>, g |-> g, log |-> lg]
    ELSE recipients_from(_route_recipient_from_header(Group(header, m, 1), id, g), lg)

parse_info_recipients(header, id, g, lg) ==
    info_recipients_of(header, id, g, lg, Search(_INFO_PATTERN, header, 0, Len(header)))

(* The driver: parse_recipients, then parse_info_recipients, of one header. *)

MaxRecPieces == 3

RecPieces == <<<<"\n","T","O"," ","R","U","E","H","C","/","S","E","C","D","E","F"," ","N","I","A","C","T","\n">>, <<"R","H","M","F","I","S","S","/","S","E","C","D","E","F"," ","P","I","O","R","I","T","Y","\n">>, <<"R","U","E","H","X","X","/","N","I","A","C","T","\n">>,
               <<"I","N","F","O"," ","D","I","A"," ","W","A","S","H","D","C","\n">>, <<"A","M","E","M","B","A","S","S","Y"," ","O","S","L","O","\n">>>>

RecIds == {<<"0","9","B","A","K","U","1","7","9">>, <<"0","8","S","T","A","T","E","3","4","3","0","6">>}

InitRecipients ==
    /\ pc = "start"
    /\ reference_id \in RecIds
    /\ content \in TextsOf(RecPieces, MaxRecPieces)
    /\ content2 = <<>>
    /\ year = <<>>
    /\ out = <<>>
    /\ out2 = <<>>
    /\ cable = <<>>
    /\ error = ""
    /\ Imported

\* what a call with the result r leaves in the logger and in _NAME2ROUTE
Effects(r) == log' = r.log /\ globals' = [globals EXCEPT !._NAME2ROUTE = r.g]

\* out = parse_recipients(content, reference_id)
ParseRecipients ==
    /\ pc = "start"
    /\ out' = parse_recipients(content, reference_id, globals._NAME2ROUTE, log).res
    /\ Effects(parse_recipients(content, reference_id, globals._NAME2ROUTE, log))
    /\ pc' = "to"
    /\ UNCHANGED <<reference_id, content, content2, year, out2, cable, error, clean, fix_subject, frames>>

\* out2 = parse_info_recipients(content, reference_id)
ParseInfoRecipients ==
    /\ pc = "to"
    /\ out2' = parse_info_recipients(content, reference_id, globals._NAME2ROUTE, log).res
    /\ Effects(parse_info_recipients(content, reference_id, globals._NAME2ROUTE, log))
    /\ pc' = "info"
    /\ UNCHANGED <<reference_id, content, content2, year, out, cable, error, clean, fix_subject, frames>>

NextRecipients == ParseRecipients \/ ParseInfoRecipients

SpecRecipients == InitRecipients /\ [][NextRecipients]_vars

\* the text after the TO anchor that parse_recipients hands on, the text
\* after the INFO anchor that parse_info_recipients hands on
ToFound == Search(_TO_PATTERN, content, 0, Len(content)) # NoMatch
ToSpan == Group(content, Search(_TO_PATTERN, content, 0, Len(content)), 1)
InfoFound == Search(_INFO_PATTERN, content, 0, Len(content)) # NoMatch
InfoSpan == Group(content, Search(_INFO_PATTERN, content, 0, Len(content)), 1)

\* the warnings in the log
Warnings == SelectSeq(log, LAMBDA r : r.level = "warn")

\* C12: when the header has no TO anchor, parse_recipients returns an empty
\* list and emits exactly one warning if the identifier is not in
\* _CABLES_WITHOUT_TO, and no warning if it is.
C12_WarnsOnceWithoutTo ==
    (pc # "start" /\ ~ToFound) =>
        /\ out = <<>>
        /\ Len(Warnings) = IF reference_id \in _CABLES_WITHOUT_TO THEN 0 ELSE 1

C12_Witness ==
    /\ pc = "to"
    /\ ~ToFound
    /\ content # <<>>
    /\ reference_id \notin _CABLES_WITHOUT_TO
    /\ Len(log) = 1

\* the names the lines of a span have after cleanup
CleanNames(span, id) ==
    LET ms == FindAll(_REC_PATTERN, span, 0)
    IN  [k \in 1..Len(ms) |-> rec_recipient(Group(span, ms[k], 2), id)]

\* the number of names of a list that are not empty
NamedLines(names) == Cardinality({k \in 1..Len(names) : ~Falsy(names[k])})

\* res holds a pair for each line of the span with a name, and none without a name
NamedOnly(span, id, res) ==
    /\ Len(res) = NamedLines(CleanNames(span, id))
    /\ \A k \in 1..Len(res) : ~Falsy(res[k][2])

\* C13: _route_recipient_from_header drops every line whose name is empty
\* after cleanup, also when the line has a route prefix, and keeps every line
\* with a name, also when no route is resolved: no returned pair has an empty
\* or None name.
C13_NoEmptyName ==
    /\ (pc # "start" /\ ToFound) => NamedOnly(ToSpan, reference_id, out)
    /\ (pc = "info" /\ InfoFound) => NamedOnly(InfoSpan, reference_id, out2)

\* the pairs of res are the pairs of lines of the span, in the order of the lines
InHeaderOrder(span, id, res) ==
    LET names == CleanNames(span, id)
    IN  \E f \in [1..Len(res) -> 1..Len(names)] :
          /\ \A j, k \in 1..Len(res) : j < k => f[j] < f[k]
          /\ \A k \in 1..Len(res) : res[k][2] = names[f[k]]

\* C14: the lists of parse_recipients and parse_info_recipients keep header
\* order: the kept recipients come in the order of their lines in the TO
\* (INFO) span, and route resolution neither reorders nor inserts a pair.
C14_HeaderOrder ==
    /\ (pc # "start" /\ ToFound) => InHeaderOrder(ToSpan, reference_id, out)
    /\ (pc # "start" /\ ~ToFound) => out = <<>>
    /\ (pc = "info" /\ InfoFound) => InHeaderOrder(InfoSpan, reference_id, out2)
    /\ (pc = "info" /\ ~InfoFound) => out2 = <<>>

C14_Witness ==
    /\ pc = "info"
    /\ Len(out) = 2
    /\ out[1][2] # out[2][2]
    /\ out = <<<<<<"R","U","E","H","C">>, <<"S","E","C","D","E","F">>>>, <<<<"R","U","E","H","N","Y">>, <<"A","M","E","M","B","A","S","S","Y"," ","O","S","L","O">>>>>>
    /\ out2 = <<<<<<"R","H","E","F","J","M","A">>, <<"D","I","A"," ","W","A","S","H","D","C">>>>>>

-----------------------------------------------------------------------------
(* _route_for_name, called by several threads.  A frame holds the locals   *)
(* of a caller; pc names the line the caller runs next.  A step is one     *)
(* statement (one round of the for loop); the module has no lock, so the   *)
(* steps of the callers interleave freely.                                 *)

NumCallers == 2

Callers == 1..NumCallers

\* the names the callers ask for: one of routes.txt, one found by the
\* WASHDC retry in _ADDITIONAL_ROUTES
RouteNames == {<<"A","M","E","M","B","A","S","S","Y"," ","O","S","L","O">>, <<"D","I","A"," ","W","A","S","H","D","C">>}

\* a caller outside _route_for_name: opened and assigned count the times it
\* ran line 429 and line 437
IdleFrame ==
    [pc |-> "idle", name |-> <<>>, NAME2ROUTE |-> NoneDict, line |-> 0, res |-> NoneText,
     opened |-> 0, assigned |-> 0]

InitRoutes ==
    /\ pc = "threads"
    /\ reference_id = <<>>
    /\ content = <<>>
    /\ content2 = <<>>
    /\ year = <<>>
    /\ out = <<>>
    /\ out2 = <<>>
    /\ cable = <<>>
    /\ error = ""
    /\ clean = TRUE
    /\ fix_subject = TRUE
    /\ log = <<>>
    /\ globals = [_NAME2ROUTE |-> NoneDict, _CABLE_FIXES |-> _CABLE_FIXES]
    /\ frames = [c \in Callers |-> IdleFrame]

\* what a step of a caller leaves alone, but for frames and globals
others == <<pc, reference_id, content, content2, year, out, out2, cable, error,
            clean, fix_subject, log>>

\* caller c calls _route_for_name(name)
RouteCall(c) ==
    /\ frames[c].pc = "idle"
    /\ \E name \in RouteNames :
         frames' = [frames EXCEPT ![c].pc = "424", ![c].name = name, ![c].res = NoneText]
    /\ UNCHANGED <<globals, others>>

\* 424: NAME2ROUTE = globals().get('_NAME2ROUTE')
RouteGlobal(c) ==
    /\ frames[c].pc = "424"
    /\ frames' = [frames EXCEPT ![c].NAME2ROUTE = globals._NAME2ROUTE, ![c].pc = "425"]
    /\ UNCHANGED <<globals, others>>

\* 425: if not NAME2ROUTE
RouteTest(c) ==
    /\ frames[c].pc = "425"
    /\ frames' = [frames EXCEPT ![c].pc = IF route_unset(frames[c].NAME2ROUTE) THEN "426" ELSE "438"]
    /\ UNCHANGED <<globals, others>>

\* 426-430: NAME2ROUTE = {}, f = open(root_dir + '/routes.txt')
RouteOpen(c) ==
    /\ frames[c].pc = "426"
    /\ frames' = [frames EXCEPT ![c].NAME2ROUTE = Dict(<<>>), ![c].line = 1,
                                ![c].opened = @ + 1, ![c].pc = "431"]
    /\ UNCHANGED <<globals, others>>

\* 431-435: one round of "for l in f", or its end
RouteLine(c) ==
    /\ frames[c].pc = "431"
    /\ frames' = IF frames[c].line > Len(ROUTES_TXT)
                 THEN [frames EXCEPT ![c].pc = "436"]
                 ELSE [frames EXCEPT ![c].NAME2ROUTE =
                                          Dict(route_line(@.d, ROUTES_TXT[frames[c].line])),
                                     ![c].line = @ + 1]
    /\ UNCHANGED <<globals, others>>

\* 436: NAME2ROUTE.update(_ADDITIONAL_ROUTES)
RouteUpdate(c) ==
    /\ frames[c].pc = "436"
    /\ frames' = [frames EXCEPT ![c].NAME2ROUTE = Dict(route_updated(@.d)), ![c].pc = "437"]
    /\ UNCHANGED <<globals, others>>

\* 437: globals()['_NAME2ROUTE'] = NAME2ROUTE
RouteAssign(c) ==
    /\ frames[c].pc = "437"
    /\ globals' = [globals EXCEPT !._NAME2ROUTE = frames[c].NAME2ROUTE]
    /\ frames' = [frames EXCEPT ![c].assigned = @ + 1, ![c].pc = "438"]
    /\ UNCHANGED others

\* 438-441: res = NAME2ROUTE.get(name), the retry, return res
RouteReturn(c) ==
    /\ frames[c].pc = "438"
    /\ frames' = [frames EXCEPT ![c].res = route_get(frames[c].NAME2ROUTE.d, frames[c].name),
                                ![c].NAME2ROUTE = NoneDict, ![c].line = 0, ![c].pc = "idle"]
    /\ UNCHANGED <<globals, others>>

NextRoutes ==
    \E c \in Callers :
        \/ RouteCall(c)
        \/ RouteGlobal(c)
        \/ RouteTest(c)
        \/ RouteOpen(c)
        \/ RouteLine(c)
        \/ RouteUpdate(c)
        \/ RouteAssign(c)
        \/ RouteReturn(c)

SpecRoutes == InitRoutes /\ [][NextRoutes]_vars

\* the entries of the lines of routes.txt, and those followed by the entries
\* of _ADDITIONAL_ROUTES
FileRoutes == route_read(ROUTES_TXT, 1, <<>>)
AllRoutes == FileRoutes \o _ADDITIONAL_ROUTES

\* d holds the name of every line of routes.txt and every entry of
\* _ADDITIONAL_ROUTES
Complete(d) ==
    \/ d = AllRoutes
    \/ /\ \A k \in 1..Len(FileRoutes) : HasKey(d, FileRoutes[k].id)
       /\ \A k \in 1..Len(_ADDITIONAL_ROUTES) :
            /\ HasKey(d, _ADDITIONAL_ROUTES[k].id)
            /\ Entry(d, _ADDITIONAL_ROUTES[k].id).route
                 = Entry(_ADDITIONAL_ROUTES, _ADDITIONAL_ROUTES[k].id).route

\* C15: under any interleaving of concurrent _route_for_name calls,
\* _NAME2ROUTE is either unset or a table with every routes.txt entry and
\* every _ADDITIONAL_ROUTES entry, and no caller looks a name up in a
\* partially built table.
C15_NeverPartial ==
    /\ globals._NAME2ROUTE.isNone \/ Complete(globals._NAME2ROUTE.d)
    /\ \A c \in Callers : frames[c].pc = "438" => Complete(frames[c].NAME2ROUTE.d)

\* a caller is about to look a name up in the published table while another
\* caller is in the middle of building a table of its own
C15_Witness ==
    \E c, b \in Callers :
        /\ frames[c].pc = "438"
        /\ ~globals._NAME2ROUTE.isNone
        /\ frames[c].NAME2ROUTE = globals._NAME2ROUTE
        /\ frames[b].pc = "431"
        /\ frames[b].line = 2

\* the sum of the field f of the frames of the callers 1..n
RECURSIVE Total(_, _)
Total(f, n) == IF n = 0 THEN 0 ELSE f[n] + Total(f, n - 1)

\* C16: the route table is initialised a single time: under any interleaving
\* of concurrent first calls, at most one caller reads routes.txt and assigns
\* _NAME2ROUTE, and _NAME2ROUTE is never assigned again once it is set.
C16_SingleInit ==
    /\ Total([c \in Callers |-> frames[c].opened], NumCallers) <= 1
    /\ Total([c \in Callers |-> frames[c].assigned], NumCallers) <= 1

-----------------------------------------------------------------------------
(* Two copies of the program.  Copy A is freshly imported and makes the    *)
(* call under study as its first call: out.  Copy B makes the same call    *)
(* after a history of earlier calls for other headers: out2.  globals and  *)
(* log belong to copy A; frames holds copy B's _NAME2ROUTE and log, the    *)
(* extractor that is compared, the number of B's earlier calls, and        *)
(* whether B's table was built when it made the call under study.          *)

MaxHistory == 2
MaxPurePieces == 2

Extractors == {"parse_recipients", "parse_info_recipients"}

\* the call ex(header, id) with the global g and the logger records lg
Extractor(ex, header, id, g, lg) ==
    IF ex = "parse_recipients" THEN parse_recipients(header, id, g, lg)
    ELSE parse_info_recipients(header, id, g, lg)

\* the pieces of the header of the call under study
PurePieces == <<<<"\n","T","O"," ","R","U","E","H","C","/","S","E","C","D","E","F"," ","N","I","A","C","T","\n">>, <<"I","N","F","O"," ","D","I","A"," ","W","A","S","H","D","C","\n">>, <<"A","M","E","M","B","A","S","S","Y"," ","O","S","L","O","\n">>>>

\* the headers of the earlier calls
HistoryHeaders == {<<"\n","T","O"," ","A","M","E","M","B","A","S","S","Y"," ","O","S","L","O","\n">>, <<"S","U","B","J","E","C","T",":"," ","A","\n">>}

InitPure ==
    /\ pc = "start"
    /\ reference_id \in RecIds
    /\ content \in TextsOf(PurePieces, MaxPurePieces)
    /\ content2 = <<>>
    /\ year = <<>>
    /\ out = <<>>
    /\ out2 = <<>>
    /\ cable = <<>>
    /\ error = ""
    /\ clean = TRUE
    /\ fix_subject = TRUE
    /\ log = <<>>
    /\ globals = [_NAME2ROUTE |-> NoneDict, _CABLE_FIXES |-> _CABLE_FIXES]
    /\ \E ex \in Extractors :
         frames = [extractor |-> ex, _NAME2ROUTE |-> NoneDict, log |-> <<>>,
                   calls |-> 0, built |-> FALSE]

\* copy B after a call with the result r
EffectsB(r, n, b) ==
    frames' = [frames EXCEPT !._NAME2ROUTE = r.g, !.log = r.log, !.calls = n, !.built = b]

\* copy B: an earlier call of an extractor, for another header
PureEarlier ==
    /\ pc = "first"
    /\ frames.calls < MaxHistory
    /\ \E ex \in Extractors, h \in HistoryHeaders, id \in RecIds :
         EffectsB(Extractor(ex, h, id, frames._NAME2ROUTE, frames.log),
                  frames.calls + 1, frames.built)
    /\ UNCHANGED <<pc, reference_id, content, content2, year, out, out2, cable, error,
                   clean, fix_subject, log, globals>>

\* copy A: out = extractor(content, reference_id), its first call
PureFirst ==
    /\ pc = "start"
    /\ out' = Extractor(frames.extractor, content, reference_id, globals._NAME2ROUTE, log).res
    /\ Effects(Extractor(frames.extractor, content, reference_id, globals._NAME2ROUTE, log))
    /\ pc' = "first"
    /\ UNCHANGED <<reference_id, content, content2, year, out2, cable, error,
                   clean, fix_subject, frames>>

\* copy B: out2 = extractor(content, reference_id), after its earlier calls
PureSecond ==
    /\ pc = "first"
    /\ out2' = Extractor(frames.extractor, content, reference_id, frames._NAME2ROUTE, frames.log).res
    /\ EffectsB(Extractor(frames.extractor, content, reference_id, frames._NAME2ROUTE, frames.log),
                frames.calls, ~route_unset(frames._NAME2ROUTE))
    /\ pc' = "second"
    /\ UNCHANGED <<reference_id, content, content2, year, out, cable, error,
                   clean, fix_subject, log, globals>>

NextPure == PureEarlier \/ PureFirst \/ PureSecond

SpecPure == InitPure /\ [][NextPure]_vars

\* C17: an extractor is a function of (content, identifier): the call made
\* by a program whose route table is not built and the same call made by a
\* program with any history of earlier calls (table built or not) return
\* equal results.
C17_SameResult == pc = "second" => out = out2

\* both copies resolved a recipient through the route table; copy A built
\* the table during the call, copy B had built it in an earlier call
C17_Witness ==
    /\ pc = "second"
    /\ frames.built
    /\ frames.calls > 0
    /\ out = <<<<<<"R","H","E","F","J","M","A">>, <<"D","I","A"," ","W","A","S","H","D","C">>>>>>
    /\ out2 = out

-----------------------------------------------------------------------------
(* parse_summary *)

_CABLES_WITH_MALFORMED_SUMMARY ==
    {<<"0","9","C","A","I","R","O","2","1","3","3">>, <<"0","6","B","U","E","N","O","S","A","I","R","E","S","2","7","1","1">>, <<"0","8","B","U","E","N","O","S","A","I","R","E","S","1","3","0","5">>, <<"0","7","A","T","H","E","N","S","2","3","8","6">>,
     <<"0","9","S","O","F","I","A","7","1","6">>}

\* r'END\s+SUMMARY', re.IGNORECASE
_END_SUMMARY_PATTERN ==
    Compile(Cat(<<Lit(<<"E","N","D">>), Plus(In(Space)), Lit(<<"S","U","M","M","A","R","Y">>)>>), 0, TRUE, FALSE, FALSE)

\* ur'(SUMMAR?Y( AND COMMENT)?( AND ACTION REQUEST)?( AND INTRODUCTION)?[ U+2010\-\n:\.]*)',
\* re.IGNORECASE
_START_SUMMARY_PATTERN ==
    Compile(Grp(1, Cat(<<Lit(<<"S","U","M","M","A">>), Opt(Lit(<<"R">>)), Lit(<<"Y">>),
                         Opt(Grp(2, Lit(<<" ","A","N","D"," ","C","O","M","M","E","N","T">>))),
                         Opt(Grp(3, Lit(<<" ","A","N","D"," ","A","C","T","I","O","N"," ","R","E","Q","U","E","S","T">>))),
                         Opt(Grp(4, Lit(<<" ","A","N","D"," ","I","N","T","R","O","D","U","C","T","I","O","N">>))),
                         Star(In({" ", "U+2010", "-", "\n", ":", "."}))>>)),
            4, TRUE, FALSE, FALSE)

\* r'\n1\.[ ]*(\([^\)]+\))? '
_ALTERNATIVE_START_SUMMARY_PATTERN ==
    Compile(Cat(<<Lit(<<"\n","1",".">>), Star(In({" "})),
                  Opt(Grp(1, Cat(<<Lit(<<"(">>), Plus(NotIn({")"})), Lit(<<")">>)>>))),
                  Lit(<<" ">>)>>),
            1, FALSE, FALSE, FALSE)

\* r'^[ ]*\([SBU/NTSC]+\)[ ]*'
_CLEAN_SUMMARY_CLS_PATTERN ==
    Compile(Cat(<<Bol, Star(In({" "})), Lit(<<"(">>),
                  Plus(In({"S", "B", "U", "/", "N", "T", "C"})), Lit(<<")">>),
                  Star(In({" "}))>>),
            0, FALSE, FALSE, FALSE)

\* '[ \n]+'
_CLEAN_SUMMARY_WS_PATTERN == Compile(Plus(In({" ", "\n"})), 0, FALSE, FALSE, FALSE)

\* r'(---+)|(((^[1-9])|(\n[1-9]))\.[ ]+\([^\)]+\)[ ]+)|(^[1-2]. Summary:)|(^[1-2]\.[ ]+)
\*   |(^and action request. )|(^and comment. )|(2. (C) Summary, continued:)',
\* re.UNICODE|re.IGNORECASE
_CLEAN_SUMMARY_PATTERN ==
    Compile(Alt(<<Grp(1, Cat(<<Lit(<<"-","-">>), Plus(Lit(<<"-">>))>>)),
                  Grp(2, Cat(<<Grp(3, Alt(<<Grp(4, Cat(<<Bol, In(Digits \ {"0"})>>)),
                                            Grp(5, Cat(<<Lit(<<"\n">>), In(Digits \ {"0"})>>))>>)),
                               Lit(<<".">>), Plus(In({" "})), Lit(<<"(">>), Plus(NotIn({")"})),
                               Lit(<<")">>), Plus(In({" "}))>>)),
                  Grp(6, Cat(<<Bol, In({"1", "2"}), Dot, Lit(<<" ","S","u","m","m","a","r","y",":">>)>>)),
                  Grp(7, Cat(<<Bol, In({"1", "2"}), Lit(<<".">>), Plus(In({" "}))>>)),
                  Grp(8, Cat(<<Bol, Lit(<<"a","n","d"," ","a","c","t","i","o","n"," ","r","e","q","u","e","s","t">>), Dot, Lit(<<" ">>)>>)),
                  Grp(9, Cat(<<Bol, Lit(<<"a","n","d"," ","c","o","m","m","e","n","t">>), Dot, Lit(<<" ">>)>>)),
                  Grp(10, Cat(<<Lit(<<"2">>), Dot, Lit(<<" ">>), Grp(11, Lit(<<"C">>)),
                                Lit(<<" ","S","u","m","m","a","r","y",","," ","c","o","n","t","i","n","u","e","d",":">>)>>))>>),
            11, TRUE, FALSE, FALSE)

\* the three substitutions and the strip of "if summary:"
summary_clean(s) ==
    Strip(Sub(_CLEAN_SUMMARY_WS_PATTERN, <<" ">>,
              Sub(_CLEAN_SUMMARY_PATTERN, <<" ">>,
                  Sub(_CLEAN_SUMMARY_CLS_PATTERN, <<>>, s, 0), 0), 0))

\* "if summary:": None and the empty text are returned as they are
summary_cleaned(s) == IF Falsy(s) THEN s ELSE summary_clean(s)

\* _START_SUMMARY_PATTERN.search(content, 0, end)
\*   or _ALTERNATIVE_START_SUMMARY_PATTERN.search(content, 0, end), given the first
summary_or(c, end, m) ==
    IF m # NoMatch THEN m ELSE Search(_ALTERNATIVE_START_SUMMARY_PATTERN, c, 0, end)

summary_start(c, end) ==
    summary_or(c, end, Search(_START_SUMMARY_PATTERN, c, 0, end))

\* the record of logger.debug(...) at line 775
summary_debug(id, c, end) ==
    Debug(<<"Found \"end of summary\" but no start in", id, Slice(c, 0, end)>>)

\* "elif reference_id not in _CABLES_WITH_MALFORMED_SUMMARY: logger.debug(...)"
summary_missing(c, id, lg, end) ==
    IF id \notin _CABLES_WITH_MALFORMED_SUMMARY THEN Append(lg, summary_debug(id, c, end))
    ELSE lg

\* "else:" of "if m:" at line 767: the search for _SUMMARY_PATTERN
summary_plain(c, lg, m) ==
    IF m # NoMatch THEN [res |-> Group(c, m, 1), log |-> lg]
    ELSE [res |-> NoneText, log |-> lg]

\* mutant of summary_between: without a start, the search for _SUMMARY_PATTERN
\* is tried
summary_between_Fallback(c, id, lg, end, m) ==
    IF m # NoMatch THEN [res |-> Slice(c, m.end, end), log |-> lg]
    ELSE summary_plain(c, summary_missing(c, id, lg, end),
                       Search(_SUMMARY_PATTERN, c, 0, Len(c)))

\* "if m:" at line 767, taken: the start m of the summary that ends at end
summary_between(c, id, lg, end, m) ==
    IF m # NoMatch THEN [res |-> Slice(c, m.end, end), log |-> lg]
    ELSE [res |-> NoneText, log |-> summary_missing(c, id, lg, end)]

\* summary before "if summary:", for the result m of the search for
\* _END_SUMMARY_PATTERN
summary_found(c, id, lg, m) ==
    IF m # NoMatch
    THEN summary_between(c, id, lg, m.start, summary_start(c, m.start))
    ELSE summary_plain(c, lg, Search(_SUMMARY_PATTERN, c, 0, Len(c)))

summary_result(r) == [res |-> summary_cleaned(r.res), log |-> r.log]

parse_summary(c, id, lg) ==
    summary_result(summary_found(c, id, lg,
                                 Search(_END_SUMMARY_PATTERN, c, 0, Len(c))))

(* The driver: parse_summary of one text. *)

MaxSummaryPieces == 3

SummaryPieces == <<<<"S","U","M","M","A","R","Y",":"," ">>, <<"\n","1","."," ","(","C",")"," ">>, <<"A"," ","-","-","-"," ","B"," "," ">>, <<"E","N","D"," ","S","U","M","M","A","R","Y","."," ">>, <<"C","\n","\n">>>>

SummaryIds == {<<"0","9","C","A","I","R","O","2","1","3","3">>, <<"0","9","O","S","L","O","1","4","6">>}

InitSummary ==
    /\ pc = "start"
    /\ reference_id \in SummaryIds
    /\ content \in TextsOf(SummaryPieces, MaxSummaryPieces)
    /\ content2 = <<>>
    /\ year = <<>>
    /\ out = <<>>
    /\ out2 = <<>>
    /\ cable = <<>>
    /\ error = ""
    /\ Imported

\* out = parse_summary(content, reference_id)
ParseSummary ==
    /\ pc = "start"
    /\ out' = parse_summary(content, reference_id, log).res
    /\ log' = parse_summary(content, reference_id, log).log
    /\ pc' = "done"
    /\ UNCHANGED <<reference_id, content, content2, year, out2, cable, error,
                   clean, fix_subject, globals, frames>>

NextSummary == ParseSummary

SpecSummary == InitSummary /\ [][NextSummary]_vars

\* the offset of the END SUMMARY anchor of content; a start of summary lies
\* before it; the search of the strategy for texts without the anchor hits
EndFound == Search(_END_SUMMARY_PATTERN, content, 0, Len(content)) # NoMatch
EndOffset == Search(_END_SUMMARY_PATTERN, content, 0, Len(content)).start
StartBefore ==
    \/ Search(_START_SUMMARY_PATTERN, content, 0, EndOffset) # NoMatch
    \/ Search(_ALTERNATIVE_START_SUMMARY_PATTERN, content, 0, EndOffset) # NoMatch
PlainFound == Search(_SUMMARY_PATTERN, content, 0, Len(content)) # NoMatch

\* C18: when the END SUMMARY anchor exists and neither the start pattern nor
\* the alternative first-paragraph pattern matches before it, parse_summary
\* returns None (the strategy for texts without the anchor is not tried), and
\* one debug record is logged unless the identifier is in
\* _CABLES_WITH_MALFORMED_SUMMARY, in which case nothing is logged.
C18_NoFallback ==
    (pc = "done" /\ EndFound /\ ~StartBefore) =>
        /\ out = NoneText
        /\ IF reference_id \in _CABLES_WITH_MALFORMED_SUMMARY THEN log = <<>>
           ELSE /\ Len(log) = 1
                /\ log[1].level = "debug"
                /\ log[1].msg[2] = reference_id

\* an anchor without a start, in a text where the other strategy would have
\* found a summary, for a cable outside the list: a record is logged
C18_Witness ==
    /\ pc = "done"
    /\ EndFound
    /\ ~StartBefore
    /\ PlainFound
    /\ reference_id \notin _CABLES_WITH_MALFORMED_SUMMARY
    /\ out = NoneText
    /\ Len(log) = 1

-----------------------------------------------------------------------------
(* parse_nondisclosure_deadline *)

\* r'(?:E.?O.?\s*12958:?\s*DECL\s*:?\s*)([0-9]{1,2}/[0-9]{1,2}/[0-9]{2,4})
\*   |([0-9]{4}/[0-9]{2}/[0-9]{2})', re.IGNORECASE|re.UNICODE
_DEADLINE_PATTERN ==
    Compile(Alt(<<Cat(<<Lit(<<"E">>), Opt(Dot), Lit(<<"O">>), Opt(Dot), Star(In(Space)),
                        Lit(<<"1","2","9","5","8">>), Opt(Lit(<<":">>)), Star(In(Space)), Lit(<<"D","E","C","L">>),
                        Star(In(Space)), Opt(Lit(<<":">>)), Star(In(Space)),
                        Grp(1, Cat(<<Rep(In(Digits), 1, 2, TRUE), Lit(<<"/">>),
                                     Rep(In(Digits), 1, 2, TRUE), Lit(<<"/">>),
                                     Rep(In(Digits), 2, 4, TRUE)>>))>>),
                  Grp(2, Cat(<<Rep(In(Digits), 4, 4, TRUE), Lit(<<"/">>),
                               Rep(In(Digits), 2, 2, TRUE), Lit(<<"/">>),
                               Rep(In(Digits), 2, 2, TRUE)>>))>>),
            2, TRUE, FALSE, FALSE)

\* s.split(sep) for a separator of one character
RECURSIVE SplitOn(_, _)
SplitOn(s, sep) ==
    IF \A k \in 1..Len(s) : s[k] # sep THEN <<s>>
    ELSE <<SubSeq(s, 1, Least({k \in 1..Len(s) : s[k] = sep}) - 1)>>
         \o SplitOn(SubSeq(s, Least({k \in 1..Len(s) : s[k] = sep}) + 1, Len(s)), sep)

\* '%s' % n for an int n >= 0
RECURSIVE StrOf(_)
StrOf(n) ==
    IF n < 10 THEN <<DigitChars[n + 1]>>
    ELSE StrOf(n \div 10) \o <<DigitChars[(n % 10) + 1]>>

\* "if len(year) != 4: year = 2000 + int(year)", as '%s' prints it
deadline_year(y) == IF Len(y) # 4 THEN StrOf(2000 + IntOf(y)) ELSE y

\* mutant of deadline_padded: a month or day of one digit is left as it is
deadline_padded_Bare(x) == x

\* "if len(month) != 2: month = '0%s' % month", and the same for day
deadline_padded(x) == IF Len(x) # 2 THEN <<"0">> \o x ELSE x

\* u'%s-%s-%s' % (year, month, day)
deadline_format(y, mo, d) == y \o <<"-">> \o mo \o <<"-">> \o d

\* "if p1:", taken, for the parts of p1
deadline_first(parts) ==
    deadline_format(deadline_year(parts[3]), deadline_padded(parts[1]), deadline_padded(parts[2]))

\* "else:", for the parts of p2
deadline_second(parts) == deadline_format(parts[1], parts[2], parts[3])

\* parse_nondisclosure_deadline after m.groups()
deadline_groups(p1, p2) ==
    IF p1 # <<>> THEN deadline_first(SplitOn(p1, "/")) ELSE deadline_second(SplitOn(p2, "/"))

\* parse_nondisclosure_deadline after the search
deadline_of(c, m) ==
    IF m = NoMatch THEN NoneText ELSE deadline_groups(Group(c, m, 1), Group(c, m, 2))

parse_nondisclosure_deadline(c) ==
    deadline_of(c, Search(_DEADLINE_PATTERN, c, 0, Len(c)))

(* The driver: parse_nondisclosure_deadline of one text. *)

MaxDeadlinePieces == 3

DeadlinePieces == <<<<"E",".","O","."," ","1","2","9","5","8",":"," ","D","E","C","L",":"," ">>, <<"e","o","1","2","9","5","8"," ","d","e","c","l"," ">>, <<"0","3","/","0","4","/","1","9">>, <<"3","/","4","/","2","0","1","9">>,
                    <<"2","0","1","9","/","0","3","/","0","4">>, <<"\n">>>>

InitDeadline ==
    /\ pc = "start"
    /\ reference_id = <<>>
    /\ content \in TextsOf(DeadlinePieces, MaxDeadlinePieces)
    /\ content2 = <<>>
    /\ year = <<>>
    /\ out = <<>>
    /\ out2 = <<>>
    /\ cable = <<>>
    /\ error = ""
    /\ Imported

\* out = parse_nondisclosure_deadline(content)
ParseDeadline ==
    /\ pc = "start"
    /\ out' = parse_nondisclosure_deadline(content)
    /\ pc' = "done"
    /\ UNCHANGED <<reference_id, content, content2, year, out2, cable, error>>
    /\ UNCHANGED rest

NextDeadline == ParseDeadline

SpecDeadline == InitDeadline /\ [][NextDeadline]_vars

\* the match of _DEADLINE_PATTERN in content, and the parts of the date it holds
DeadlineMatch == Search(_DEADLINE_PATTERN, content, 0, Len(content))
MonthFirst == DeadlineMatch # NoMatch /\ Group(content, DeadlineMatch, 1) # <<>>
YearFirst == DeadlineMatch # NoMatch /\ Group(content, DeadlineMatch, 1) = <<>>
DateParts ==
    SplitOn(Group(content, DeadlineMatch, IF MonthFirst THEN 1 ELSE 2), "/")

\* t is a text of n digits
IsDigits(t, n) == Len(t) = n /\ \A k \in 1..n : t[k] \in Digits

\* YYYY-MM-DD
Canonical(t) ==
    /\ Len(t) = 10
    /\ IsDigits(SubSeq(t, 1, 4), 4)
    /\ t[5] = "-"
    /\ IsDigits(SubSeq(t, 6, 7), 2)
    /\ t[8] = "-"
    /\ IsDigits(SubSeq(t, 9, 10), 2)

\* x, with a zero in front when it is a single digit
TwoDigits(x) == IF Len(x) = 1 THEN <<"0">> \o x ELSE x

\* C19: every value parse_nondisclosure_deadline returns has the shape
\* YYYY-MM-DD; for a MM/DD/YY match a year YY of two digits becomes 20YY and
\* a month or day of one digit gets a zero in front; for a YYYY/MM/DD match
\* the three parts are emitted in the same order; without a match the result
\* is None.
C19_CanonicalDate ==
    pc = "done" =>
        /\ DeadlineMatch = NoMatch => out = NoneText
        /\ DeadlineMatch # NoMatch => Canonical(out)
        /\ MonthFirst =>
             /\ Len(DateParts[3]) = 2 => SubSeq(out, 1, 4) = <<"2", "0">> \o DateParts[3]
             /\ Len(DateParts[3]) = 4 => SubSeq(out, 1, 4) = DateParts[3]
             /\ SubSeq(out, 6, 7) = TwoDigits(DateParts[1])
             /\ SubSeq(out, 9, 10) = TwoDigits(DateParts[2])
        /\ YearFirst =>
             out = DateParts[1] \o <<"-">> \o DateParts[2] \o <<"-">> \o DateParts[3]

\* a MM/DD/YYYY match with a month and a day of one digit: both get a zero in
\* front, the year of four digits is kept
C19_Witness ==
    /\ pc = "done"
    /\ MonthFirst
    /\ Len(DateParts[1]) = 1
    /\ Len(DateParts[2]) = 1
    /\ Len(DateParts[3]) = 4
    /\ out = <<"2","0","1","9","-","0","3","-","0","4">>

-----------------------------------------------------------------------------
(* fix_content and the table it reads *)

\* C20: for an identifier without an entry in _CABLE_FIXES, fix_content
\* returns the content as it is (on the first call and on the call for its
\* result), and no call of fix_content changes the _CABLE_FIXES table.
C20_UnchangedWithoutEntry ==
    /\ globals._CABLE_FIXES = _CABLE_FIXES
    /\ ~HasKey(_CABLE_FIXES, reference_id) =>
         /\ pc \in {"fixed", "fixed twice"} => out = content
         /\ pc = "fixed twice" => out2 = content

\* a cable without an entry, and a text that the entry of another cable
\* would have changed, after the call
C20_Witness ==
    /\ pc = "fixed"
    /\ reference_id = UnknownId
    /\ fix_sub(Entry(_CABLE_FIXES, <<"0","8","M","A","N","A","M","A","4","9","2">>), content) # content
    /\ out = content

-----------------------------------------------------------------------------
(* header_body_from_content: the cut index *)

\* the matches of the summary pattern and of the first-paragraph pattern in
\* content, and the end of the classified-by match (0 without a match)
SummaryMatch == Search(_SUMMARY_PATTERN, content, 0, Len(content))
ParagraphMatch == Search(_FIRST_PARAGRAPH_PATTERN, content, 0, Len(content))
ClassifiedByEndOr0 == IF ClassifiedByFound(content) THEN ClassifiedByEnd(content) ELSE 0

\* C21: when the summary anchor and the first-numbered-paragraph anchor are
\* both found, at any offsets (offset 0 included), the cut index is
\* max(classified_by_end, min(summary_idx, paragraph_idx)); when exactly one
\* is found it is max(classified_by_end, that_idx); classified_by_end is 0
\* without a classified-by anchor.
C21_CutIndex ==
    pc # "start" =>
        /\ (SummaryMatch # NoMatch /\ ParagraphMatch # NoMatch) =>
             CutOf(out) = Max2(ClassifiedByEndOr0, Min2(SummaryMatch.start, ParagraphMatch.start))
        /\ (SummaryMatch # NoMatch /\ ParagraphMatch = NoMatch) =>
             CutOf(out) = Max2(ClassifiedByEndOr0, SummaryMatch.start)
        /\ (SummaryMatch = NoMatch /\ ParagraphMatch # NoMatch) =>
             CutOf(out) = Max2(ClassifiedByEndOr0, ParagraphMatch.start)

-----------------------------------------------------------------------------
(* parse_references: reference lines without a start *)

\* the start anchor of the reference block is found; a reference line (an
\* end boundary) is found in the window the while loop searches
RefStartFound == ref_m_start(content) # NoMatch
RefLineFound ==
    Search(_REF_LAST_REF_PATTERN, content, EndOr(ref_m_start(content), 0),
           ref_next_max_idx(content, ref_m_start(content), ref_max_idx(content))) # NoMatch

\* C22: when parse_references finds reference lines (an end boundary) but no
\* start anchor of the reference block, it logs one warning and returns the
\* empty list without raising.
C22_WarnsWithoutStart ==
    (pc = "done" /\ RefLineFound /\ ~RefStartFound) =>
        /\ out = <<>>
        /\ error = ""
        /\ Len(log) = 1
        /\ log[1].level = "warn"

-----------------------------------------------------------------------------
(* parse_subject: the window of the search *)

MaxWindowPieces == 3

\* a first numbered paragraph with a classification marker, a subject line,
\* a line break, a word
WindowPieces == <<<<"1","."," ","(","C",")"," ">>, <<"S","U","B","J","E","C","T",":"," ","A"," ","B">>, <<"\n">>, <<"x"," ">>>>

InitSubjectWindow ==
    /\ pc = "start"
    /\ reference_id \in {<<"0","9","O","S","L","O","1","4","6">>, <<"0","9","O","S","L","O","9","9","9">>}
    /\ content \in TextsOf(WindowPieces, MaxWindowPieces)
    /\ content2 = <<>>
    /\ year = <<>>
    /\ out = <<>>
    /\ out2 = <<>>
    /\ cable = <<>>
    /\ error = ""
    /\ clean = TRUE
    /\ fix_subject \in BOOLEAN
    /\ log = <<>>
    /\ globals = [_NAME2ROUTE |-> NoneDict, _CABLE_FIXES |-> _CABLE_FIXES]
    /\ frames = <<>>

SpecSubjectWindow == InitSubjectWindow /\ [][NextSubject]_vars

\* the first match of the numbered paragraph with a classification marker,
\* and the boundary it gives: its start, 1200 without a match
ParagraphMarker == Search(_SUBJECT_MAX_PATTERN, content, 0, Len(content))
Boundary == IF ParagraphMarker # NoMatch THEN ParagraphMarker.start ELSE _MAX_HEADER_IDX
SubjectInWindow == Search(_SUBJECT_PATTERN, content, 0, Boundary)

\* C23: parse_subject searches for the subject marker in [0, boundary) only,
\* where boundary is the start of the first numbered paragraph with a
\* classification marker (offset 0 included) and 1200 only without such a
\* match: without a marker in that window the result is the one for "no
\* subject found", with one it is the subject of that match.
C23_SearchWindow ==
    pc = "done" =>
        /\ SubjectInWindow = NoMatch =>
             out = subject_fixed(reference_id, clean, fix_subject).value
        /\ SubjectInWindow # NoMatch =>
             out = subject_found(content, SubjectInWindow, clean).value

-----------------------------------------------------------------------------
(* parse_tags: the fixes for single cables *)

\* the tags of the tokens toks from the k-th on, added to res, when the two
\* splits are made for their cables only and every other token is treated
\* alike
RECURSIVE ScopedTags(_, _, _, _)
ScopedTags(toks, k, res, id) ==
    IF k > Len(toks) THEN res
    ELSE LET tag == tag_upper(toks[k])
         IN  ScopedTags(toks, k + 1,
                        IF tag = <<"P","T","E","R"," ","M","A","R","R">> /\ id = <<"0","7","B","A","K","U","8","5","5">>
                        THEN res \o <<<<"P","T","E","R">>, <<"M","A","R","R">>>>
                        ELSE IF tag = <<"P","H","U","M","B","A">>
                                /\ id \in {<<"0","8","E","C","T","I","O","N","0","1","O","F","0","2","M","A","N","A","M","A","4","9","2">>, <<"0","8","M","A","N","A","M","A","4","9","2">>}
                        THEN res \o <<<<"P","H","U","M">>, <<"B","A">>>>
                        ELSE IF \E j \in 1..Len(res) : res[j] = tag_fix(tag) THEN res
                        ELSE Append(res, tag_fix(tag)),
                        id)

\* the tokens of the candidate tag text of content
TagTokens ==
    LET m == Search(_TAGS_PATTERN, content, 0, Len(content))
    IN  IF m = NoMatch THEN <<>> ELSE tag_tokens(tags_text(content, m))

\* C24: the fixes of parse_tags are scoped by identifier: 'PTER MARR' is
\* split into two tags for cable 07BAKU855 only, 'PHUMBA' into PHUM and BA
\* for 08ECTION01OF02MANAMA492 and 08MANAMA492 only; for every other cable
\* these tokens are handled like any other token.
C24_IdentifierScoped ==
    pc = "done" => out = ScopedTags(TagTokens, 1, <<>>, reference_id)

-----------------------------------------------------------------------------
(* _route_for_name, called twice in a row by one thread: for the name      *)
(* content while _NAME2ROUTE is still None, then for the name content2.    *)

MaxLookupPieces == 2

LookupPieces == <<<<"A","M","C","O","N","S","U","L"," ","L","A","G","O","S">>, <<"A","M","E","M","B","A","S","S","Y"," ","O","S","L","O">>, <<"D","I","A"," ">>, <<"S","E","C","S","T","A","T","E"," ">>, <<"W","A","S","H","D","C">>,
                  <<"W","A","S","H","I","N","G","T","O","N"," ","D","C">>, <<"X">>>>

LookupNames == TextsOf(LookupPieces, MaxLookupPieces)

LaterNames == {<<"D","I","A"," ","W","A","S","H","D","C">>, <<"A","M","C","O","N","S","U","L"," ","L","A","G","O","S">>, <<"N","S","C">>}

InitLookup ==
    /\ pc = "start"
    /\ reference_id = <<>>
    /\ content \in LookupNames
    /\ content2 \in LaterNames
    /\ year = <<>>
    /\ out = <<>>
    /\ out2 = <<>>
    /\ cable = <<>>
    /\ error = ""
    /\ Imported

\* res = _route_for_name(name) and the value of the global after the call
LookupDone(call) ==
    /\ globals' = [globals EXCEPT !._NAME2ROUTE = call.g]
    /\ UNCHANGED <<reference_id, content, content2, year, cable, error, clean, fix_subject,
                   log, frames>>

\* the first call: _route_for_name(content)
LookupFirst ==
    /\ pc = "start"
    /\ out' = _route_for_name(globals._NAME2ROUTE, content).res
    /\ LookupDone(_route_for_name(globals._NAME2ROUTE, content))
    /\ pc' = "first"
    /\ UNCHANGED out2

\* the call after it: _route_for_name(content2)
LookupSecond ==
    /\ pc = "first"
    /\ out2' = _route_for_name(globals._NAME2ROUTE, content2).res
    /\ LookupDone(_route_for_name(globals._NAME2ROUTE, content2))
    /\ pc' = "done"
    /\ UNCHANGED out

NextLookup == LookupFirst \/ LookupSecond

SpecLookup == InitLookup /\ [][NextLookup]_vars

\* the route the table holds for name: that of _ADDITIONAL_ROUTES when it has
\* the name, else that of the last line of routes.txt with the name
InTable(name) == HasKey(_ADDITIONAL_ROUTES, name) \/ HasKey(FileRoutes, name)
TableEntry(name) ==
    IF HasKey(_ADDITIONAL_ROUTES, name) THEN Entry(_ADDITIONAL_ROUTES, name).route
    ELSE Entry(FileRoutes, name).route

\* name with WASHDC replaced by WASHINGTON DC
SpelledOut(name) == Replace(name, <<"W","A","S","H","D","C">>, <<"W","A","S","H","I","N","G","T","O","N"," ","D","C">>)

RouteOf(name) ==
    IF InTable(name) THEN TableEntry(name)
    ELSE IF EndsWith(name, <<"W","A","S","H","D","C">>) /\ InTable(SpelledOut(name))
         THEN TableEntry(SpelledOut(name))
         ELSE NoneText

\* C25: _route_for_name(name) returns the table entry for name when there is
\* one; when there is none and name ends with WASHDC, the entry for name with
\* WASHDC replaced by WASHINGTON DC; else None.  An entry of
\* _ADDITIONAL_ROUTES wins over a line of routes.txt with the same name.
C25_Lookup ==
    /\ pc # "start" => out = RouteOf(content)
    /\ pc = "done" => out2 = RouteOf(content2)

\* the first call asked for a name that routes.txt and _ADDITIONAL_ROUTES
\* both hold, with different routes, and got the route of _ADDITIONAL_ROUTES;
\* the second call asked for DIA WASHDC and got the route of DIA WASHINGTON DC
C25_Witness ==
    /\ pc = "done"
    /\ content = <<"A","M","C","O","N","S","U","L"," ","L","A","G","O","S">>
    /\ HasKey(FileRoutes, content)
    /\ Entry(FileRoutes, content).route = <<"R","U","E","H","L","A">>
    /\ out = <<"R","U","E","H","O","S">>
    /\ content2 = <<"D","I","A"," ","W","A","S","H","D","C">>
    /\ ~InTable(content2)
    /\ out2 = <<"R","H","E","F","J","M","A">>

-----------------------------------------------------------------------------
(* parse_references for a reference line that names cables in several      *)
(* forms: without a year, with a year of two, three or four digits, with   *)
(* an alias of an origin, with zeros before the sequence number.           *)

MaxFormPieces == 2

FormPieces == <<<<"A",")"," ","O","S","L","O"," ","0","1","2","3"," ">>, <<"B",")"," ","2","0","0","8"," ","S","E","C","S","T","A","T","E"," ","4","5"," ">>, <<"C",")"," ","0","8"," ","R","i","o"," ","7"," ">>,
                <<"D",")"," ","1","2","3"," ","S","E","C","D","E","F"," ","8"," ">>, <<"E",")"," ","0","7"," ","U","N"," ","V","I","E"," ","0","0"," ">>>>

FormYears == {<<"2","0","0","9">>, <<"1","9","9","8">>}

InitRefForms ==
    /\ pc = "start"
    /\ reference_id = <<"0","9","O","S","L","O","9","9","9">>
    /\ content \in {<<"R","E","F",":"," ">> \o body : body \in TextsOf(FormPieces, MaxFormPieces)}
    /\ year \in FormYears
    /\ content2 = <<>>
    /\ out = <<>>
    /\ out2 = <<>>
    /\ cable = <<>>
    /\ error = ""
    /\ Imported

SpecRefForms == InitRefForms /\ [][NextRefs]_vars

\* the last two characters of s
LastTwo(s) == SubSeq(s, Len(s) - 1, Len(s))

\* the canonical origin of the spelling o
Aliases == <<[from |-> <<"R","I","O">>, to |-> <<"R","I","O","D","E","J","A","N","E","I","R","O">>],
             [from |-> <<"R","I","O","D","E","J","A","N">>, to |-> <<"R","I","O","D","E","J","A","N","E","I","R","O">>],
             [from |-> <<"S","E","C","S","T","A","T","E">>, to |-> <<"S","T","A","T","E">>],
             [from |-> <<"S","E","C","D","E","F">>, to |-> <<"S","T","A","T","E">>],
             [from |-> <<"U","N","V","I","E">>, to |-> <<"U","N","V","I","E","N","N","A">>],
             [from |-> <<"E","M","B","A","S","S","Y","V","I","E","N","N","A">>, to |-> <<"U","N","V","I","E","N","N","A">>]>>
Canonical2(o) ==
    IF \E k \in 1..Len(Aliases) : Aliases[k].from = o
    THEN Aliases[CHOOSE k \in 1..Len(Aliases) : Aliases[k].from = o].to
    ELSE o

\* the digits of sn from its first digit other than 0 on (its last digit
\* when there is none)
RECURSIVE NoZeros(_)
NoZeros(sn) == IF Len(sn) > 1 /\ sn[1] = "0" THEN NoZeros(Tail(sn)) ELSE sn

\* the mentions of cables in the reference block: year as written (maybe
\* empty), origin as written, sequence number as written
Mentions ==
    LET refs == ref_block(content)
        ms == FindAll(_REF_PATTERN, refs, 0)
    IN  {[y |-> Group(refs, ms[k], 1), origin |-> Group(refs, ms[k], 2),
          sn |-> Group(refs, ms[k], 3)] : k \in 1..Len(ms)}

\* the reference of a mention: two digits of the year, canonical origin,
\* sequence number without leading zeros
TwoDigitYear(y) == IF y = <<>> THEN LastTwo(year) ELSE IF Len(y) = 4 THEN LastTwo(y) ELSE y
ReferenceOf(m) ==
    TwoDigitYear(m.y) \o Canonical2(UpperStr(RemoveChar(m.origin, " "))) \o NoZeros(m.sn)

\* C26: every reference parse_references returns is two digits of the year,
\* the canonical origin and the sequence number: the last two digits of the
\* supplied year when the mention has no year, the last two digits of a
\* year of four digits, the sequence number without leading zeros, STATE for
\* SECSTATE and SECDEF, RIODEJANEIRO for RIO and RIODEJAN, UNVIENNA for UNVIE
\* and EMBASSYVIENNA.
C26_ReferenceForm ==
    pc = "done" =>
        \A k \in 1..Len(out) :
            /\ \E m \in Mentions : Len(TwoDigitYear(m.y)) = 2 /\ out[k] = ReferenceOf(m)
            /\ Len(out[k]) > 4
            /\ out[k][1] \in Digits /\ out[k][2] \in Digits /\ out[k][3] \notin Digits
            /\ \A a \in 1..Len(Aliases) :
                   \A n \in 1..Len(out[k]) :
                       SubSeq(out[k], 3, n) = Aliases[a].from => out[k][n + 1] \notin Digits

\* a mention without a year and with zeros before its number, and a mention
\* of SECSTATE with a year of four digits, are both returned
C26_Witness ==
    /\ pc = "done"
    /\ content = <<"R","E","F",":"," ","A",")"," ","O","S","L","O"," ","0","1","2","3"," ","B",")"," ","2","0","0","8"," ","S","E","C","S","T","A","T","E"," ","4","5"," ">>
    /\ year = <<"1","9","9","8">>
    /\ out = <<<<"9","8","O","S","L","O","1","2","3">>, <<"0","8","S","T","A","T","E","4","5">>>>

-----------------------------------------------------------------------------
(* cablemap.core.models: a Cable and its cached properties.  cable holds   *)
(* the attributes of one instance, d being the part of its __dict__ that   *)
(* cached_property writes; frames counts, by property, the calls of the    *)
(* function the property wraps; pc names the attribute that was read      *)
(* last, out and error what the read returned or raised.                   *)

MaxCalls == 2

Properties == {"subject", "tags", "references", "summary", "recipients"}

CableContents == {<<"S","U","B","J","E","C","T",":"," ","&","#","1","1","1","4","1","1","2",";">>, <<"T","A","G","S",":"," ","P","R","E","L",","," ","\n","S","U","B","J","E","C","T",":"," ","C","\n","R","E","F",":"," ","O","S","L","O"," ","1","2","3"," ">>}

CableHeaders == {<<"\n","T","O"," ","R","U","E","H","C","/","S","E","C","S","T","A","T","E","\n">>, <<"\n","T","O"," ","A","M","E","M","B","A","S","S","Y"," ","O","S","L","O","\n">>}

\* cached_property._missing, and a stored value
Missing == [set |-> FALSE, value |-> <<>>]
Stored(v) == [set |-> TRUE, value |-> v]

\* the cable cable_from_html returns: Cable(reference_id), created set by
\* parse_meta, header and content assigned
InitCable ==
    /\ pc = "start"
    /\ reference_id = <<>>
    /\ content = <<>>
    /\ content2 = <<>>
    /\ year = <<>>
    /\ out = <<>>
    /\ out2 = <<>>
    /\ error = ""
    /\ \E h \in CableHeaders, c \in CableContents :
         cable = [reference_id |-> <<"0","9","O","S","L","O","9","9","9">>, created |-> <<"2","0","0","9","-","0","2","-","1","3"," ","1","0",":","0","0">>,
                  header |-> h, content |-> c, d |-> [name \in Properties |-> Missing]]
    /\ globals = [_NAME2ROUTE |-> NoneDict, _CABLE_FIXES |-> _CABLE_FIXES]
    /\ log = <<>>
    /\ frames = [name \in Properties |-> 0]
    /\ clean = TRUE
    /\ fix_subject = TRUE

\* what a function of Cable returns or raises, and the logger's records
Returned(v, lg) == [value |-> v, error |-> "", log |-> lg]
SubjectReturned(r, lg) == [value |-> r.value, error |-> r.error, log |-> lg]
SummaryReturned(r) == [value |-> r.res, error |-> "", log |-> r.log]

\* Cable.subject, Cable.tags, Cable.references, Cable.summary
Cable_subject(cbl, lg) ==
    SubjectReturned(parse_subject(cbl.content, cbl.reference_id, TRUE, TRUE), lg)
Cable_tags(cbl, lg) ==
    Returned(parse_tags(cbl.content, cbl.reference_id),
             tags_log(cbl.content, cbl.reference_id, lg))
Cable_references(cbl, lg) ==
    Returned(parse_references(cbl.content, Slice(cbl.created, 0, 4), cbl.reference_id),
             ref_log(cbl.content, cbl.reference_id, lg))
Cable_summary(cbl, lg) == SummaryReturned(parse_summary(cbl.content, cbl.reference_id, lg))

\* Cable.recipients: "... if not self.partial else _EMPTY"; no instance has
\* an attribute partial (the property is named is_partial)
Cable_recipients(cbl, lg) == [value |-> <<>>, error |-> "AttributeError", log |-> lg]

\* self.func(obj) for the cached property name
func(name, cbl, lg) ==
    CASE name = "subject" -> Cable_subject(cbl, lg)
      [] name = "tags" -> Cable_tags(cbl, lg)
      [] name = "references" -> Cable_references(cbl, lg)
      [] name = "summary" -> Cable_summary(cbl, lg)
      [] name = "recipients" -> Cable_recipients(cbl, lg)

\* cached_property.__get__ when the value is missing: the function is
\* called; its value is stored unless it raised
cached_call(name, r) ==
    /\ out' = r.value
    /\ error' = r.error
    /\ log' = r.log
    /\ cable' = IF r.error = "" THEN [cable EXCEPT !.d[name] = Stored(r.value)] ELSE cable
    /\ frames' = [frames EXCEPT ![name] = @ + 1]

\* a read of the attribute name of the cable
Get(name) ==
    /\ frames[name] < MaxCalls
    /\ IF cable.d[name].set
       THEN /\ out' = cable.d[name].value
            /\ error' = ""
            /\ UNCHANGED <<cable, frames, log>>
       ELSE cached_call(name, func(name, cable, log))
    /\ pc' = name
    /\ UNCHANGED <<reference_id, content, content2, year, out2, clean, fix_subject, globals>>

\* cable.content = c
SetContent(c) ==
    /\ cable' = [cable EXCEPT !.content = c]
    /\ UNCHANGED <<pc, reference_id, content, content2, year, out, out2, error>>
    /\ UNCHANGED rest

\* cable.header = h
SetHeader(h) ==
    /\ cable' = [cable EXCEPT !.header = h]
    /\ UNCHANGED <<pc, reference_id, content, content2, year, out, out2, error>>
    /\ UNCHANGED rest

NextCable ==
    \/ \E name \in Properties : Get(name)
    \/ \E c \in CableContents : SetContent(c)
    \/ \E h \in CableHeaders : SetHeader(h)

SpecCable == InitCable /\ [][NextCable]_vars

\* C27: the function of a cached property of a Cable runs at most once per
\* instance: the first read stores the value, and a later read returns the
\* stored value without another call, whatever was assigned to content or
\* header in between.
C27_AtMostOnce ==
    \A name \in Properties :
        /\ frames[name] <= 1
        /\ (pc = name /\ cable.d[name].set) => error = "" /\ out = cable.d[name].value

-----------------------------------------------------------------------------
(* parse_references, its while loop statement by statement.  frames holds  *)
(* the locals of the call: m_start, max_idx (of step 4), last_end, m_end,  *)
(* and first, the value last_end had before the loop.  pc is the line the  *)
(* call runs next.                                                         *)

MaxLoopPieces == 3

LoopPieces == <<<<"R","E","F",":"," ">>, <<"A",")"," ","O","S","L","O"," ","1">>, <<"\n","B","."," ","O","S","L","O"," ","2">>, <<"\n","1","."," ","(","C",")"," ">>>>

InitRefLoop ==
    /\ pc = "start"
    /\ reference_id = <<"0","9","O","S","L","O","9","9","9">>
    /\ content \in TextsOf(LoopPieces, MaxLoopPieces)
    /\ year = <<"2","0","0","9">>
    /\ content2 = <<>>
    /\ out = <<>>
    /\ out2 = <<>>
    /\ cable = <<>>
    /\ error = ""
    /\ Imported

\* the locals when the loop is reached: m_start, the max_idx of step 4,
\* last_end = m_start and m_start.end() or 0
ref_locals(c, m_start, max_idx, last_end) ==
    [m_start |-> m_start, max_idx |-> max_idx, first |-> last_end, last_end |-> last_end,
     m_end |-> Search(_REF_LAST_REF_PATTERN, c, last_end, max_idx)]

\* mutant of ref_advance: the next search starts where the line starts
ref_advance_Stuck(m_end) == m_end.start

\* last_end = m_end.end()
ref_advance(m_end) == m_end.end

\* lines 643-653: the call runs up to the while loop
RefLoopEnter ==
    /\ pc = "start"
    /\ \E max_idx \in {ref_max_idx(content)} :
         \E m_start \in {Search(_REF_START_PATTERN, content, 0, max_idx)} :
           \E next_max_idx \in {ref_next_max_idx(content, m_start, max_idx)} :
             frames' = ref_locals(content, m_start, next_max_idx, EndOr(m_start, 0))
    /\ pc' = "654"
    /\ UNCHANGED <<reference_id, content, content2, year, out, out2, cable, error>>
    /\ UNCHANGED <<clean, fix_subject, log, globals>>

\* lines 654-655: "while m_end" is true, last_end = m_end.end()
RefLoopAdvance ==
    /\ pc = "654"
    /\ frames.m_end # NoMatch
    /\ frames' = [frames EXCEPT !.last_end = ref_advance(frames.m_end)]
    /\ pc' = "656"
    /\ UNCHANGED <<reference_id, content, content2, year, out, out2, cable, error>>
    /\ UNCHANGED <<clean, fix_subject, log, globals>>

\* line 656: m_end = _REF_LAST_REF_PATTERN.search(content, last_end, max_idx)
RefLoopSearch ==
    /\ pc = "656"
    /\ frames' = [frames EXCEPT !.m_end = Search(_REF_LAST_REF_PATTERN, content,
                                                 frames.last_end, frames.max_idx)]
    /\ pc' = "654"
    /\ UNCHANGED <<reference_id, content, content2, year, out, out2, cable, error>>
    /\ UNCHANGED <<clean, fix_subject, log, globals>>

\* lines 654, 657-679: "while m_end" is false, the references are built and
\* returned
RefLoopLeave ==
    /\ pc = "654"
    /\ frames.m_end = NoMatch
    /\ \E refs \in {ref_refs(content, frames.m_start, frames.last_end)} :
         \E ms \in {FindAll(_REF_PATTERN, refs, 0)} :
           \E cands \in {ref_each(refs, ms, year)} :
             out' = ref_loop(cands, 1, <<>>, reference_id)
    /\ log' = ref_warned(content, reference_id, log, frames.m_start, frames.m_end)
    /\ pc' = "done"
    /\ UNCHANGED <<reference_id, content, content2, year, out2, cable, error>>
    /\ UNCHANGED <<clean, fix_subject, globals, frames>>

NextRefLoop == RefLoopEnter \/ RefLoopAdvance \/ RefLoopSearch \/ RefLoopLeave

SpecRefLoop == InitRefLoop /\ [][NextRefLoop]_vars

\* the call runs in one thread that is never suspended for good: the
\* statement the thread is at is run in the end.  Enter, Search and Leave
\* change pc, so each is enabled exactly when its guard holds; their weak
\* fairness is written with the guard in the place of ENABLED.
SpecRefLoopFair ==
    /\ SpecRefLoop
    /\ WF_vars(RefLoopAdvance)
    /\ ([]<>(pc # "start") \/ []<><<RefLoopEnter>>_vars)
    /\ ([]<>(pc # "656") \/ []<><<RefLoopSearch>>_vars)
    /\ ([]<>(~(pc = "654" /\ frames.m_end = NoMatch)) \/ []<><<RefLoopLeave>>_vars)

\* a round of the loop moves last_end forward, by a match that is not empty
RoundAdvances ==
    RefLoopAdvance =>
        /\ frames.m_end.end > frames.m_end.start
        /\ frames.m_end.start >= frames.last_end
        /\ frames'.last_end > frames.last_end

\* last_end is not past the bound of the search
WithinBound == pc # "start" => frames.last_end <= frames.max_idx

\* C28: the loop over the reference lines of parse_references ends for
\* every content: each round makes last_end greater (no match of the
\* reference-line pattern is empty), and last_end is never greater than the
\* bound max_idx of the search.
C28_LoopTerminates ==
    /\ <>(pc = "done")
    /\ [][RoundAdvances]_vars
    /\ []WithinBound

\* the loop has made a round and is about to make another one
C28_Witness ==
    /\ pc = "654"
    /\ frames.last_end > frames.first
    /\ frames.m_end # NoMatch

====
